---------------------------- MODULE Spec2Model ----------------------------
(***************************************************************************)
(* WebSentinel (src/api_server.py): the execution-trace normalizer         *)
(* (BrowserExecutor.save_execution_results), the compliance analyzer       *)
(* (analyze_results_direct), the analysis request with its narrative       *)
(* fallback (analyze_results_endpoint) and the task pipeline               *)
(* (execute_test / BrowserExecutor.execute_task).                          *)
(*                                                                         *)
(* Text is a sequence of tokens (a token is a piece of a Python string);   *)
(* Python's None is the one-token text None.  A call that may raise        *)
(* returns a record with a field raised.                                   *)
(***************************************************************************)
EXTENDS Integers, Sequences, FiniteSets, TLC

VARIABLES
    a_results,      \* analyze_results_direct: the execution_results argument
    a_instr,        \* analyze_results_direct: the original_instructions argument
    a_results0,     \* the two arguments as they were handed to the first call
    a_instr0,
    a_reports,      \* what the calls made so far returned, in call order
    now,            \* the wall clock (datetime.now()), in ticks
    n_history,      \* save_execution_results: the history the agent returned
    n_thoughts,     \* what load_agent_thoughts read from the task's thoughts file
    n_out,          \* what save_execution_results returned and wrote
    n_report,       \* analyze_results_direct on the normalized results
    n_pc,           \* "start", "normalized", "analyzed"
    GEMINI_API_KEY, \* whether the key is configured (read once, at import)
    task_storage,   \* the task registry: task id -> task record
    pipelines,      \* the execute_task coroutines scheduled so far, in order
    response,       \* the answer to the last HTTP request
    narrative,      \* what the last call of portia_agent.run did
    sys_stdout,     \* sys.stdout: the console (0) or the pipeline whose tee is installed
    th_file,        \* the content of agent_thoughts_<task_id>.txt
    th_counts,      \* AgentLogger: the counters of the session
    th_logged,      \* the thoughts the agent logged, in logging order
    th_loaded,      \* what load_agent_thoughts returned
    th_pc,          \* "logging", "loaded"
    w_thoughts,     \* enhance_step_with_thoughts: the agent_thoughts argument
    w_steps,        \* the number of steps of the history being normalized
    w_enhanced      \* per step enhanced so far: its window and its enhanced step

anaVars == <<a_results, a_instr, a_results0, a_instr0, a_reports>>
normVars == <<n_history, n_thoughts, n_out, n_report, n_pc>>
svcVars == <<GEMINI_API_KEY, task_storage, pipelines, response, narrative, sys_stdout>>
thVars == <<th_file, th_counts, th_logged, th_loaded, th_pc>>
wVars == <<w_thoughts, w_steps, w_enhanced>>
vars == <<now, anaVars, normVars, svcVars, thVars, wVars>>

\* the variables outside each part of the model
notAna == <<normVars, svcVars, thVars, wVars>>
notNorm == <<now, anaVars, svcVars, thVars, wVars>>
notSvc == <<anaVars, normVars, thVars, wVars>>
notTh == <<anaVars, normVars, svcVars, wVars>>
notW == <<now, anaVars, normVars, svcVars, thVars>>

\* a part of the model that a specification does not exercise stays as it is
AnaIdle ==
    /\ a_results = <<>> /\ a_instr = <<>> /\ a_results0 = <<>> /\ a_instr0 = <<>>
    /\ a_reports = <<>>
SvcIdle ==
    /\ GEMINI_API_KEY = TRUE /\ task_storage = <<>> /\ pipelines = <<>>
    /\ response = <<>> /\ narrative = <<>> /\ sys_stdout = 0
NormIdle ==
    /\ n_history = <<>> /\ n_thoughts = <<>> /\ n_out = <<>> /\ n_report = <<>>
    /\ n_pc = "idle"
ThIdle ==
    /\ th_file = <<>> /\ th_counts = <<>> /\ th_logged = <<>> /\ th_loaded = <<>>
    /\ th_pc = "idle"
WIdle ==
    /\ w_thoughts = <<>> /\ w_steps = 0 /\ w_enhanced = <<>>

(***************************************************************************)
(* Bounds of the model.                                                    *)
(***************************************************************************)
MaxSteps == 2        \* longest history the agent returns
MaxThoughts == 2     \* most thoughts read from the thoughts file
MaxAnaSteps == 2     \* longest execution_steps list handed to the analyzer
MaxShots == 2        \* most screenshots captured / required
TicksPerSecond == 2  \* clock ticks in one second of the strftime timestamp
MaxTasks == 2        \* most start requests
MaxRequests == 2     \* most HTTP requests
MaxTime == 1         \* last tick of the wall clock in the task pipeline

(***************************************************************************)
(* Python strings.                                                         *)
(***************************************************************************)
None == <<"<None>">>

IsNone(t) == t = None

\* bool(x) of a text or None: the empty string and None are falsy
TruthyText(t) == t # <<>> /\ ~IsNone(t)

\* str.lower() on one token
LowerTok(c) ==
    CASE c = "X.COM" -> "x.com"
      [] c = "ACTION" -> "action"
      [] c = "OBSERVATION" -> "observation"
      [] c = "DECISION" -> "decision"
      [] c = "Navigate" -> "navigate"
      [] c = "Goto" -> "goto"
      [] OTHER -> c

\* str.lower()
Lower(s) == [k \in 1..Len(s) |-> LowerTok(s[k])]

\* s.startswith(p)
StartsWith(s, p) == Len(p) <= Len(s) /\ SubSeq(s, 1, Len(p)) = p

\* sub in s
Contains(s, sub) ==
    \E k \in 0..(Len(s) - Len(sub)) : SubSeq(s, k + 1, k + Len(sub)) = sub

\* s.rstrip("/")
RECURSIVE RStripSlash(_)
RStripSlash(s) ==
    IF s # <<>> /\ s[Len(s)] = "/" THEN RStripSlash(SubSeq(s, 1, Len(s) - 1)) ELSE s

\* index of the first "/" token of s, Len(s)+1 when there is none
RECURSIVE FirstSlash(_, _)
FirstSlash(s, k) ==
    IF k > Len(s) THEN k ELSE IF s[k] = "/" THEN k ELSE FirstSlash(s, k + 1)

\* urllib.parse.urlparse(url).netloc: what follows the scheme's "//" up to the
\* next "/"; empty when the url has no scheme
Netloc(url) ==
    IF url # <<>> /\ url[1] \in {"https://", "http://"}
    THEN SubSeq(url, 2, FirstSlash(url, 2) - 1)
    ELSE <<>>

\* str(n) of a small number
Str(n) == <<ToString(n)>>

\* the words the URL heuristics look for
NAVIGATE == <<"navigate">>
GOTO == <<"goto">>
NAVIGATED_TO == <<"navigate", "d to">>

\* first verdict of vs that is not "miss" (a scan that stops at the first hit
\* and is ended by the first exception), "miss" when there is none
RECURSIVE FirstEvent(_)
FirstEvent(vs) ==
    IF vs = <<>> THEN "miss"
    ELSE IF Head(vs) # "miss" THEN Head(vs) ELSE FirstEvent(Tail(vs))


(***************************************************************************)
(* analyze_results_direct                                                  *)
(*                                                                         *)
(* A step is the dict the analyzer reads: hasActions ("actions" in step),  *)
(* actions (each with its type and details.url), results (each with its    *)
(* content), and the action and result texts.  Python's True, False and    *)
(* None in the success field are the tokens below.                         *)
(***************************************************************************)
PyTrue == "True"
PyFalse == "False"
PyNone == "None"

\* bool(v) of a success value
Truthy(v) == v = PyTrue

\* d.get(key, default) of a dict
DictGet(d, key, default) == IF key \in DOMAIN d THEN d[key] ELSE default

\* the empty dict
EmptyDict == [k \in {} |-> <<>>]

\* action.get("type") == "navigate" and
\* action.get("details", {}).get("url", "").startswith(target_url.rstrip("/"))
NavigateVerdict(action, target_url) ==
    LET url == DictGet(action.details, "url", <<>>)
    IN  IF action.type # "navigate" THEN "miss"
        ELSE IF IsNone(url) THEN "raise"
        ELSE IF StartsWith(url, RStripSlash(target_url)) THEN "hit"
        ELSE "miss"

\* the verdicts of the navigate check over every action of every step that has
\* an "actions" key, in scan order
RECURSIVE ActionVerdicts(_, _)
ActionVerdicts(steps, target_url) ==
    IF steps = <<>> THEN <<>>
    ELSE (IF Head(steps).hasActions
          THEN [k \in 1..Len(Head(steps).actions) |->
                    NavigateVerdict(Head(steps).actions[k], target_url)]
          ELSE <<>>)
         \o ActionVerdicts(Tail(steps), target_url)

\* Method 1: navigate actions of the enhanced steps
Method1(enhanced_steps, target_url) ==
    FirstEvent(ActionVerdicts(enhanced_steps, target_url))

\* Method 2: navigate actions embedded in the execution steps
Method2(execution_steps, target_url) ==
    FirstEvent(ActionVerdicts(execution_steps, target_url))

\* "navigated to" in content.lower() and target_url.lower() in content.lower()
ContentVerdict(content, target_url) ==
    IF IsNone(content) THEN "raise"
    ELSE IF Contains(Lower(content), NAVIGATED_TO)
            /\ Contains(Lower(content), Lower(target_url)) THEN "hit"
    ELSE "miss"

RECURSIVE ContentVerdicts(_, _)
ContentVerdicts(steps, target_url) ==
    IF steps = <<>> THEN <<>>
    ELSE [k \in 1..Len(Head(steps).results) |->
              ContentVerdict(Head(steps).results[k].content, target_url)]
         \o ContentVerdicts(Tail(steps), target_url)

\* Method 3: a result content saying "navigated to" the target
Method3(execution_steps, target_url) ==
    FirstEvent(ContentVerdicts(execution_steps, target_url))

\* Method 4 on one step: navigation words or the target in the action or result text
TextVerdict(step, target_url) ==
    IF IsNone(step.action) \/ IsNone(step.result) THEN "raise"
    ELSE LET action_text == Lower(step.action)
             result_text == Lower(step.result)
         IN  IF \/ Contains(action_text, NAVIGATE)
                \/ Contains(action_text, GOTO)
                \/ Contains(action_text, Lower(target_url))
                \/ Contains(result_text, NAVIGATED_TO)
                \/ Contains(result_text, Lower(target_url))
             THEN "hit" ELSE "miss"

\* Method 4: navigation indicators in the step texts
Method4(execution_steps, target_url) ==
    FirstEvent([k \in 1..Len(execution_steps) |->
                    TextVerdict(execution_steps[k], target_url)])

\* f"{v}" of a text or None
Format(t) == IF IsNone(t) THEN <<"None">> ELSE t

\* Method 5: the target's domain anywhere in a step's texts; guarded by a
\* non-empty target and its own try/except
Method5(execution_steps, target_url) ==
    IF target_url = <<>> THEN "miss"
    ELSE LET target_domain == Lower(Netloc(target_url))
         IN  IF \E k \in 1..Len(execution_steps) :
                    Contains(Lower(Format(execution_steps[k].action) \o <<" ">>
                                   \o Format(execution_steps[k].result)),
                             target_domain)
             THEN "hit" ELSE "miss"

\* the cascade: each method runs only while url_accessed is still False, and an
\* exception in methods 1-4 leaves the function
UrlAccess(execution_results, target_url) ==
    LET steps == execution_results.execution_steps
        m1 == Method1(execution_results.enhanced_steps, target_url)
        m2 == Method2(steps, target_url)
        m3 == Method3(steps, target_url)
        m4 == Method4(steps, target_url)
        m5 == Method5(steps, target_url)
    IN  IF m1 # "miss" THEN m1
        ELSE IF m2 # "miss" THEN m2
        ELSE IF m3 # "miss" THEN m3
        ELSE IF m4 # "miss" THEN m4
        ELSE m5

MutScreenshotCompliance(required_screenshots, captured_screenshots) ==
    [required |-> Len(required_screenshots),
     captured |-> Len(captured_screenshots),
     meets_requirements |->
         IF required_screenshots # <<>>
         THEN Len(captured_screenshots) > Len(required_screenshots)
         ELSE TRUE]

\* compliance_check["screenshots_captured"]
ScreenshotCompliance(required_screenshots, captured_screenshots) ==
    [required |-> Len(required_screenshots),
     captured |-> Len(captured_screenshots),
     meets_requirements |->
         IF required_screenshots # <<>>
         THEN Len(captured_screenshots) >= Len(required_screenshots)
         ELSE TRUE]

REC_FAILED == <<"Task execution failed - check error logs">>
REC_NOT_ALL == <<"Not all required screenshots were captured">>
REC_SUCCESS == <<"Task appears to have completed successfully">>
RecNotAccessed(target_url) ==
    <<"Target URL">> \o target_url \o <<"may not have been properly accessed">>
RecAccessed(target_url) ==
    <<"Target URL">> \o target_url \o <<"was successfully accessed">>
RecCaptured(n) == <<"Successfully captured">> \o Str(n) \o <<"screenshots">>
RecSteps(n) == <<"Completed">> \o Str(n) \o <<"execution steps">>

\* the recommendations with the screenshot entry only from the second screenshot on
MutRecommendations(success, url_accessed, target_url, required, captured, steps_count) ==
    (IF ~Truthy(success) THEN <<REC_FAILED>> ELSE <<>>)
    \o (IF ~url_accessed THEN <<RecNotAccessed(target_url)>> ELSE <<>>)
    \o (IF required > 0 /\ captured < required THEN <<REC_NOT_ALL>> ELSE <<>>)
    \o (IF Truthy(success)
        THEN (IF url_accessed THEN <<REC_SUCCESS, RecAccessed(target_url)>> ELSE <<>>)
             \o (IF captured > 1 THEN <<RecCaptured(captured)>> ELSE <<>>)
             \o (IF steps_count > 0 THEN <<RecSteps(steps_count)>> ELSE <<>>)
        ELSE <<>>)

\* the recommendations, appended in the order of the code
Recommendations(success, url_accessed, target_url, required, captured, steps_count) ==
    (IF ~Truthy(success) THEN <<REC_FAILED>> ELSE <<>>)
    \o (IF ~url_accessed THEN <<RecNotAccessed(target_url)>> ELSE <<>>)
    \o (IF required > 0 /\ captured < required THEN <<REC_NOT_ALL>> ELSE <<>>)
    \o (IF Truthy(success)
        THEN (IF url_accessed THEN <<REC_SUCCESS, RecAccessed(target_url)>> ELSE <<>>)
             \o (IF captured > 0 THEN <<RecCaptured(captured)>> ELSE <<>>)
             \o (IF steps_count > 0 THEN <<RecSteps(steps_count)>> ELSE <<>>)
        ELSE <<>>)

\* datetime.now().isoformat(): the clock to the tick
IsoFormat(t) == Str(t)

\* datetime.now().strftime("%Y%m%d_%H%M%S"): the clock to the second
StrfTime(t) == Str(t \div TicksPerSecond)

\* lines 1384-1391: the report is written to review_file; the file's name is
\* recorded on success and the failure on an exception
MutSaveReview(review_report, review_file, write_ok) ==
    IF write_ok THEN [review_report EXCEPT !.review_file = review_file]
    ELSE [review_report EXCEPT
              !.recommendations = Append(@, <<"Error saving review report">>)]

SaveReview(review_report, review_file, write_ok) ==
    IF write_ok THEN [review_report EXCEPT !.review_file = review_file]
    ELSE [review_report EXCEPT !.error = <<"Error saving review report">>]

\* analyze_results_direct(execution_results, original_instructions), called at
\* clock t; write_ok says whether the review file could be written
AnalyzeResultsDirect(execution_results, original_instructions, t, write_ok) ==
    LET target_url == original_instructions.target_url
        required == original_instructions.screenshot_instructions
        captured == execution_results.screenshots
        access == UrlAccess(execution_results, target_url)
        url_accessed == access = "hit"
        review_file == <<"review_report">> \o execution_results.task_id \o StrfTime(t)
        review_report ==
            [raised |-> FALSE,
             task_id |-> execution_results.task_id,
             timestamp |-> IsoFormat(t),
             original_instructions |-> original_instructions,
             execution_summary |->
                 [success |-> execution_results.success,
                  steps_completed |-> Len(execution_results.execution_steps),
                  screenshots_captured |-> Len(captured),
                  error |-> execution_results.error],
             detailed_analysis |->
                 [conversation_length |-> Len(execution_results.full_conversation),
                  screenshot_analysis |->
                      IF captured # <<>> THEN <<"Screenshots captured at key moments">>
                      ELSE <<"No screenshots captured">>],
             recommendations |->
                 Recommendations(execution_results.success, url_accessed, target_url,
                                 Len(required), Len(captured),
                                 Len(execution_results.execution_steps)),
             compliance_check |->
                 [target_url_accessed |-> url_accessed,
                  screenshots_captured |-> ScreenshotCompliance(required, captured)],
             review_file |-> None,
             error |-> None]
    IN  IF access = "raise" THEN [raised |-> TRUE]
        ELSE SaveReview(review_report, review_file, write_ok)

(***************************************************************************)
(* The analyzer's inputs: execution results as the normalizer and the      *)
(* repository's tests hand them over.                                      *)
(***************************************************************************)
URL_X == <<"https://", "x.com">>
URL_X_SLASH == <<"https://", "x.com", "/">>
URL_Y == <<"https://", "y.com">>
NAVIGATED_TO_X == <<"Navigate", "d to", "https://", "x.com", "/">>

AnaStep(has, actions, results, action, result) ==
    [hasActions |-> has, actions |-> actions, results |-> results,
     action |-> action, result |-> result]

\* a navigate to the target whose result says so
StepNavX ==
    AnaStep(TRUE, <<[type |-> "navigate", details |-> [url |-> URL_X_SLASH]]>>,
            <<[content |-> NAVIGATED_TO_X]>>,
            <<"Step 1:", "navigate">>, <<"Results:", "1", "actions completed">>)
\* a navigate elsewhere whose action result extracted no content
StepNavY ==
    AnaStep(TRUE, <<[type |-> "navigate", details |-> [url |-> URL_Y]]>>, <<[content |-> None]>>,
            <<"Step 1:", "navigate">>, <<"Results:", "1", "actions completed">>)
\* a click: no heuristic matches it
StepClick ==
    AnaStep(TRUE, <<[type |-> "click", details |-> [index |-> 1]]>>, <<[content |-> <<"clicked">>]>>,
            <<"Step 1:", "click">>, <<"Results:", "1", "actions completed">>)
\* a step of the tuple branch that only names the target's domain
StepDomain ==
    AnaStep(FALSE, <<>>, <<>>, <<"open", "X.COM", "page">>, <<"ok">>)
\* no action, a result content saying the target was navigated to
StepContent ==
    AnaStep(TRUE, <<>>, <<[content |-> NAVIGATED_TO_X]>>,
            <<"Step 1:">>, <<"Results:", "1", "actions completed">>)
\* a click whose action result extracted no content
StepNullContent ==
    AnaStep(TRUE, <<[type |-> "click", details |-> [index |-> 1]]>>, <<[content |-> None]>>,
            <<"Step 1:", "click">>, <<"Results:", "1", "actions completed">>)

AnaSteps == {StepNavX, StepNavY, StepClick, StepDomain, StepContent, StepNullContent}

\* the sequences over S of length at most n
SeqsUpTo(S, n) == UNION {[1..m -> S] : m \in 0..n}

TargetUrls == {URL_X, URL_X_SLASH, <<>>}

\* a list of n items of which only the length is read
ListOf(n, item) == [k \in 1..n |-> item]

AnaResults(steps, enhanced, success, captured) ==
    [task_id |-> <<"task_1">>, success |-> success, error |-> None,
     execution_steps |-> steps, enhanced_steps |-> enhanced,
     full_conversation |-> ListOf(Len(steps), "entry"),
     screenshots |-> ListOf(captured, "shot.png")]

AnaInstructions(target_url, required) ==
    [target_url |-> target_url, task_description |-> <<"test the site">>,
     screenshot_instructions |-> ListOf(required, "instruction")]

InitAnalyze ==
    /\ \E steps \in SeqsUpTo(AnaSteps, MaxAnaSteps),
          enhanced \in {<<>>, <<StepNavX>>},
          success \in {PyTrue, PyFalse, PyNone},
          captured \in 0..MaxShots :
            a_results = AnaResults(steps, enhanced, success, captured)
    /\ \E target_url \in TargetUrls, required \in 0..MaxShots :
            a_instr = AnaInstructions(target_url, required)
    /\ a_results0 = a_results
    /\ a_instr0 = a_instr
    /\ a_reports = <<>>
    /\ now = 0
    /\ NormIdle
    /\ SvcIdle
    /\ ThIdle
    /\ WIdle

\* one call of analyze_results_direct on the two arguments; the call takes time
AnalyzeCall ==
    /\ Len(a_reports) < 2
    /\ \E write_ok \in BOOLEAN :
          a_reports' = Append(a_reports,
                              AnalyzeResultsDirect(a_results, a_instr, now, write_ok))
    /\ \E d \in 1..TicksPerSecond : now' = now + d
    /\ UNCHANGED <<a_results, a_instr, a_results0, a_instr0>>
    /\ UNCHANGED notAna

NextAnalyze == AnalyzeCall


(***************************************************************************)
(* Claims about analyze_results_direct, checked under SpecAnalyze.         *)
(***************************************************************************)
\* the heuristics, each evaluated on its own over the arguments
HeuristicVerdicts ==
    <<Method1(a_results.enhanced_steps, a_instr.target_url),
      Method2(a_results.execution_steps, a_instr.target_url),
      Method3(a_results.execution_steps, a_instr.target_url),
      Method4(a_results.execution_steps, a_instr.target_url),
      Method5(a_results.execution_steps, a_instr.target_url)>>

AnyHeuristicHits == \E k \in 1..5 : HeuristicVerdicts[k] = "hit"

Returned(n) == n \in 1..Len(a_reports) /\ ~a_reports[n].raised

\* C4: if one of the five URL heuristics, evaluated on its own, reports the
\* target as accessed, every call returns a report with target_url_accessed true
C4_AnyHitMeansAccessed ==
    AnyHeuristicHits =>
        \A n \in 1..Len(a_reports) :
            /\ ~a_reports[n].raised
            /\ a_reports[n].compliance_check.target_url_accessed

\* C5: with an empty target URL the report says target_url_accessed = false,
\* whatever the steps are
C5_EmptyTargetNotAccessed ==
    a_instr.target_url = <<>> =>
        \A n \in 1..Len(a_reports) :
            Returned(n) => ~a_reports[n].compliance_check.target_url_accessed

\* C6: a returned report has required = R, captured = C, and meets_requirements
\* true when R = 0 and (C >= R) when R > 0
C6_ScreenshotCompliance ==
    \A n \in 1..Len(a_reports) :
        Returned(n) =>
            LET R == Len(a_instr.screenshot_instructions)
                C == Len(a_results.screenshots)
                check == a_reports[n].compliance_check.screenshots_captured
            IN  /\ check.required = R
                /\ check.captured = C
                /\ check.meets_requirements = (IF R = 0 THEN TRUE ELSE C >= R)

\* C6 witness: a report for fewer captured than required screenshots, and the
\* same for exactly as many
C6_Witness ==
    /\ Returned(1)
    /\ Len(a_instr.screenshot_instructions) = Len(a_results.screenshots)
    /\ Len(a_results.screenshots) > 0
    /\ a_reports[1].compliance_check.screenshots_captured.meets_requirements

ReportCore(r) ==
    IF r.raised THEN <<"raised">>
    ELSE <<r.task_id, r.original_instructions, r.execution_summary,
           r.detailed_analysis, r.recommendations, r.compliance_check>>

Recommends(report, message) ==
    \E i \in 1..Len(report.recommendations) : report.recommendations[i] = message

\* C19: whenever the execution results have success = true, the report's
\* recommendations hold the success confirmation message, whether or not the
\* target URL was detected as accessed, and they hold the URL-success message
\* exactly when the URL was accessed
C19_SuccessMessageWheneverSuccess ==
    \A n \in 1..Len(a_reports) :
        (Returned(n) /\ a_results.success = PyTrue) =>
            /\ Recommends(a_reports[n], REC_SUCCESS)
            /\ Recommends(a_reports[n], RecAccessed(a_instr.target_url))
                   <=> a_reports[n].compliance_check.target_url_accessed

\* C20: with success unknown (null), a target URL that is present and detected
\* as accessed, and no screenshot requirement, the returned report's
\* recommendations are the empty list
C20_NullSuccessNoRecommendations ==
    \A n \in 1..Len(a_reports) :
        (/\ Returned(n)
         /\ a_results.success = PyNone
         /\ a_instr.target_url # <<>>
         /\ a_reports[n].compliance_check.target_url_accessed
         /\ a_instr.screenshot_instructions = <<>>)
        => a_reports[n].recommendations = <<>>

\* the three negative entries and the positive entries of a report's recommendations
NegativeEntry(message) ==
    \/ message = REC_FAILED
    \/ message = RecNotAccessed(a_instr.target_url)
    \/ message = REC_NOT_ALL

PositiveEntry(message) ==
    \/ message = REC_SUCCESS
    \/ message = RecAccessed(a_instr.target_url)
    \/ message = RecCaptured(Len(a_results.screenshots))
    \/ message = RecSteps(Len(a_results.execution_steps))

PositiveCount(report) ==
    Cardinality({i \in 1..Len(report.recommendations) :
                     PositiveEntry(report.recommendations[i])})

\* C21: with success = true, the target URL detected as accessed, at least one
\* captured screenshot and no required screenshots, the recommendations hold at
\* least three positive entries and none of the three negative entries; and in
\* any report every negative entry comes before every positive entry
C21_PositiveRecommendations ==
    \A n \in 1..Len(a_reports) :
        Returned(n) =>
            LET recs == a_reports[n].recommendations
            IN  /\ (/\ a_results.success = PyTrue
                    /\ a_reports[n].compliance_check.target_url_accessed
                    /\ Len(a_results.screenshots) >= 1
                    /\ a_instr.screenshot_instructions = <<>>)
                   => /\ PositiveCount(a_reports[n]) >= 3
                      /\ \A i \in 1..Len(recs) : ~NegativeEntry(recs[i])
                /\ \A i, j \in 1..Len(recs) :
                       (NegativeEntry(recs[i]) /\ PositiveEntry(recs[j])) => i < j

\* C21 witness: a returned report for a successful run without execution steps,
\* target accessed, one screenshot, none required: exactly three positive entries
C21_Witness ==
    /\ Returned(1)
    /\ a_results.success = PyTrue
    /\ a_reports[1].compliance_check.target_url_accessed
    /\ Len(a_results.screenshots) = 1
    /\ a_instr.screenshot_instructions = <<>>
    /\ a_instr.target_url # <<>>
    /\ a_results.execution_steps = <<>>
    /\ Len(a_reports[1].recommendations) = 3

(***************************************************************************)
(* BrowserExecutor.save_execution_results: the trace normalizer            *)
(*                                                                         *)
(* A raw step is what the agent's history holds.  kind "history": an       *)
(* object with model_output and result (action: the items of               *)
(* model_output.action, result: the action results, shot:                  *)
(* state.screenshot).  kind "tuple": a tuple (items; shot: the screenshot  *)
(* attribute of an item).  kind "object": anything else (act, res: the     *)
(* first non-empty action and result attribute, None when there is none;   *)
(* shot: the first non-empty screenshot attribute).                        *)
(***************************************************************************)
NA == <<"N/A">>
ELLIPSIS == <<"...">>
SummaryBudget == 60

\* some word of ws is in the text
ContainsAny(text, ws) == \E w \in ws : Contains(text, <<w>>)

\* first_line[:60] + "..." if len(first_line) > 60 else first_line
Truncate(first_line) ==
    IF Len(first_line) > SummaryBudget
    THEN SubSeq(first_line, 1, SummaryBudget) \o ELLIPSIS ELSE first_line

\* extract_action_summary
ExtractActionSummary(action_data) ==
    IF action_data = <<>> \/ action_data = NA THEN <<"No action specified">>
    ELSE LET first_line == Lower(action_data)
         IN  IF ContainsAny(first_line, {"navigate", "goto"}) THEN <<"Navigating to webpage">>
             ELSE IF ContainsAny(first_line, {"click"}) THEN <<"Clicking element">>
             ELSE IF ContainsAny(first_line, {"type", "input"}) THEN <<"Entering text">>
             ELSE IF ContainsAny(first_line, {"scroll"}) THEN <<"Scrolling page">>
             ELSE IF ContainsAny(first_line, {"wait"}) THEN <<"Waiting for element">>
             ELSE IF ContainsAny(first_line, {"screenshot"}) THEN <<"Taking screenshot">>
             ELSE IF ContainsAny(first_line, {"search"}) THEN <<"Searching">>
             ELSE Truncate(action_data)

\* extract_result_summary
ExtractResultSummary(result_data) ==
    IF result_data = <<>> \/ result_data = NA THEN <<"No result available">>
    ELSE LET first_line == Lower(result_data)
         IN  IF ContainsAny(first_line, {"success"}) THEN <<"Action completed successfully">>
             ELSE IF ContainsAny(first_line, {"failed", "error"}) THEN <<"Action failed">>
             ELSE IF ContainsAny(first_line, {"found"}) THEN <<"Element found">>
             ELSE IF ContainsAny(first_line, {"loaded"}) THEN <<"Page loaded">>
             ELSE IF ContainsAny(first_line, {"clicked"}) THEN <<"Click performed">>
             ELSE IF ContainsAny(first_line, {"typed"}) THEN <<"Text entered">>
             ELSE IF ContainsAny(first_line, {"[]", "empty"}) THEN <<"No results returned">>
             ELSE Truncate(result_data)

\* parse_action_details: the full text is kept in raw_action
ParseActionDetails(action_data) ==
    IF action_data = <<>> \/ action_data = NA THEN EmptyDict
    ELSE [raw_action |-> action_data]

\* parse_result_details: the full text is kept in raw_result
ParseResultDetails(result_data) ==
    IF result_data = <<>> \/ result_data = NA THEN EmptyDict
    ELSE [raw_result |-> result_data]

\* classify_action_type
ClassifyActionType(action_data) ==
    IF action_data = <<>> \/ action_data = NA THEN "unknown"
    ELSE LET action_lower == Lower(action_data)
         IN  IF ContainsAny(action_lower, {"navigate", "goto", "visit"}) THEN "navigation"
             ELSE IF ContainsAny(action_lower, {"click", "tap", "press"}) THEN "interaction"
             ELSE IF ContainsAny(action_lower, {"type", "input", "enter", "fill"}) THEN "input"
             ELSE IF ContainsAny(action_lower, {"scroll", "swipe"}) THEN "scroll"
             ELSE IF ContainsAny(action_lower, {"wait", "pause", "sleep"}) THEN "wait"
             ELSE IF ContainsAny(action_lower, {"screenshot", "capture", "image"}) THEN "capture"
             ELSE IF ContainsAny(action_lower, {"search", "find", "locate"}) THEN "search"
             ELSE IF ContainsAny(action_lower, {"extract", "get", "read"}) THEN "extraction"
             ELSE "other"

\* determine_success_status
DetermineSuccessStatus(result_data) ==
    IF result_data = <<>> \/ result_data = NA THEN "unknown"
    ELSE LET result_lower == Lower(result_data)
         IN  IF ContainsAny(result_lower, {"success", "completed", "done", "found"}) THEN "success"
             ELSE IF ContainsAny(result_lower, {"failed", "error", "exception", "timeout", "not found"})
                  THEN "failed"
             ELSE IF ContainsAny(result_lower, {"[]", "empty", "none"}) THEN "empty"
             ELSE "completed"

\* the attributes of an action item the normalizer recognizes, in the order it
\* tests them, with the action type each gives
ActionTypeOf(attr) ==
    CASE attr = "go_to_url" -> "navigate"
      [] attr = "input_text" -> "input"
      [] attr = "click_element_by_index" -> "click"
      [] attr = "log_action" -> "log_action"
      [] attr = "log_observation" -> "log_observation"
      [] attr = "log_decision" -> "log_decision"
      [] attr = "done" -> "done"
      [] attr = "extract_content" -> "extract_content"
      [] attr = "take_screenshot_now" -> "screenshot"
      [] OTHER -> "unknown"

\* reading the sub-fields of a recognized action item raises AttributeError when
\* the item's parameter object lacks one of them
ItemRaises(item) == ActionTypeOf(item.attr) # "unknown" /\ ~item.complete

\* lines 496-531: one action item as {"type", "details"}
ExtractAction(item) ==
    LET type == ActionTypeOf(item.attr)
    IN  [type |-> type,
         details |->
             CASE type = "navigate" -> [url |-> item.arg]
               [] type = "input" -> [text |-> item.arg, index |-> 1]
               [] type = "click" -> [index |-> 1]
               [] type \in {"log_action", "log_observation", "log_decision"} ->
                      [message |-> item.arg]
               [] type = "done" -> [text |-> item.arg, success |-> PyTrue]
               [] type = "extract_content" -> [goal |-> item.arg]
               [] type = "screenshot" -> [description |-> item.arg]
               [] OTHER -> EmptyDict]

\* lines 533-543: the action results that have an extracted_content attribute
RECURSIVE ExtractResults(_)
ExtractResults(result) ==
    IF result = <<>> THEN <<>>
    ELSE (IF Head(result).has_content
          THEN <<[content |-> Head(result).content, is_done |-> Head(result).is_done,
                  success |-> Head(result).success, error |-> Head(result).error]>>
          ELSE <<>>)
         \o ExtractResults(Tail(result))

\* ", ".join(types)
RECURSIVE JoinTypes(_)
JoinTypes(actions) ==
    IF actions = <<>> THEN <<>>
    ELSE IF Len(actions) = 1 THEN <<actions[1].type>>
    ELSE <<actions[1].type, ",">> \o JoinTypes(Tail(actions))

StepLabel(i) == <<"Step", ToString(i), ":">>

Max(a, b) == IF a >= b THEN a ELSE b
Min(a, b) == IF a <= b THEN a ELSE b

\* lines 305-307: the thoughts apportioned to a step
ThoughtWindow(agent_thoughts, step_number) ==
    LET thoughts_per_step ==
            IF agent_thoughts # <<>>
            THEN Max(1, Len(agent_thoughts) \div Max(1, step_number)) ELSE 0
        start_idx == (step_number - 1) * thoughts_per_step
        end_idx == Min(Len(agent_thoughts), start_idx + thoughts_per_step + 2)
    IN  SubSeq(agent_thoughts, start_idx + 1, end_idx)

\* the messages of the thoughts of one type
MessagesOf(thoughts, type) ==
    LET sel == SelectSeq(thoughts, LAMBDA th : th.type = type)
    IN  [k \in 1..Len(sel) |-> sel[k].message]

\* the messages of the log actions of one type that have a message
LogMessages(actions, type) ==
    LET sel == SelectSeq(actions, LAMBDA a :
                   a.type = type /\ TruthyText(DictGet(a.details, "message", <<>>)))
    IN  [k \in 1..Len(sel) |-> sel[k].details.message]

LogTypes == {"log_action", "log_observation", "log_decision"}

\* lines 309-335: the thoughts of a step, by type, from the log's thoughts in the
\* step's window and from the step's own log actions
StepThoughts(window, actions) ==
    [actions |-> MessagesOf(window, "action") \o LogMessages(actions, "log_action"),
     observations |-> MessagesOf(window, "observation")
                      \o LogMessages(actions, "log_observation"),
     decisions |-> MessagesOf(window, "decision")
                   \o LogMessages(actions, "log_decision")]

\* lines 337-353: the summary of a step; action is the step's own action text
ActionSummary(step_thoughts, technical_actions, actions, step_number, action) ==
    IF step_thoughts.actions # <<>> THEN step_thoughts.actions[1]
    ELSE IF step_thoughts.decisions # <<>>
         THEN <<"Decision:">> \o step_thoughts.decisions[1]
    ELSE IF step_thoughts.observations # <<>>
         THEN <<"Observation:">> \o step_thoughts.observations[1]
    ELSE IF actions # <<>>
         THEN (IF technical_actions # <<>>
               THEN StepLabel(step_number) \o JoinTypes(technical_actions)
               ELSE StepLabel(step_number) \o JoinTypes(actions))
    ELSE action

\* lines 355-359: the summary and the thoughts stored in both records
StoreThoughts(pr, action_summary, step_thoughts) ==
    [step_info |-> [pr.step_info EXCEPT !.action = action_summary,
                                        !.thoughts = step_thoughts],
     enhanced_step |-> [pr.enhanced_step EXCEPT !.action_summary = action_summary,
                                                !.thoughts = step_thoughts]]

\* the summary computed from the thoughts, then stored with them
SummarizeAndStore(pr, step_thoughts, step_number, actions) ==
    StoreThoughts(pr,
                  ActionSummary(step_thoughts,
                                SelectSeq(actions, LAMBDA a : a.type \notin LogTypes),
                                actions, step_number, pr.step_info.action),
                  step_thoughts)

\* enhance_step_with_thoughts on the pair pr = [step_info, enhanced_step];
\* actions is <<>> when the caller passes none
EnhanceStepWithThoughts(pr, step_number, agent_thoughts, actions) ==
    SummarizeAndStore(pr, StepThoughts(ThoughtWindow(agent_thoughts, step_number), actions),
                      step_number, actions)

\* a screenshot value of a step: "none" (absent or empty), "b64" (a base64
\* string), "bytes", "image" (an object with save), "data_uri", "path" (an
\* existing file), "path_missing", "http" (a URL string), "other"
ShotKinds == {"none", "b64", "bytes", "image", "data_uri", "path", "path_missing",
              "http", "other"}

\* what the screenshot code of a branch does with a value: writes says whether
\* it tries to write a file, records whether it goes on to record the reference
\* when nothing raised
\* history (lines 581-602): base64.b64decode and a write, inside the try
\* tuple (lines 639-662): bytes are written, an object with save is saved,
\*   anything else falls through to the recording lines
\* object (lines 712-751): as the tuple, and a data URI is decoded, an existing
\*   path copied; any other value falls through to the recording lines
ShotAttempt(kind, shot) ==
    CASE shot = "none" -> [writes |-> FALSE, raises |-> FALSE, records |-> FALSE]
      [] kind = "history" ->
             [writes |-> shot = "b64", raises |-> shot # "b64", records |-> shot = "b64"]
      [] kind = "tuple" ->
             [writes |-> shot \in {"bytes", "image"}, raises |-> FALSE, records |-> TRUE]
      [] OTHER ->
             [writes |-> shot \in {"bytes", "image", "data_uri", "path"},
              raises |-> FALSE, records |-> TRUE]

\* the screenshot of a step: recorded (the reference is set and appended to
\* results), wrote (a file was written), error (an exception was caught)
ShotResult(a, write_ok) ==
    [recorded |-> a.records /\ ~(a.raises \/ (a.writes /\ ~write_ok)),
     wrote |-> a.writes /\ write_ok /\ ~a.raises,
     error |-> a.raises \/ (a.writes /\ ~write_ok)]

ShotOutcome(kind, shot, write_ok) == ShotResult(ShotAttempt(kind, shot), write_ok)

ScreenshotFile(task_id, i, ts) == task_id \o <<"_step_", ToString(i), "_">> \o ts \o <<".png">>
ScreenshotPath(task_id, i, ts) == <<"operation_logs/screenshots/">> \o ScreenshotFile(task_id, i, ts)
ScreenshotUrl(task_id, i, ts) == <<"/screenshots/">> \o ScreenshotFile(task_id, i, ts)

\* lines 458-484: the two records a step starts from
InitialStepInfo(i) ==
    [step_number |-> i, action |-> NA, result |-> NA, screenshot_url |-> None,
     action_type |-> "unknown", success |-> FALSE,
     hasActions |-> FALSE, actions |-> <<>>, results |-> <<>>, thoughts |-> EmptyDict]

\* an enhanced step never gets an "actions" key of its own (hasActions): its
\* actions are under action_details
InitialEnhancedStep(i) ==
    [step_number |-> i, action_summary |-> <<"Unknown action">>,
     action_details |-> EmptyDict, result_summary |-> <<"No result available">>,
     result_details |-> EmptyDict, action_type |-> "unknown",
     success_status |-> "unknown", screenshot_url |-> None, errors |-> <<>>,
     hasActions |-> FALSE, actions |-> <<>>, thoughts |-> EmptyDict]

\* the screenshot lines of a branch applied to the pair, o their outcome
StoreScreenshot(pr, o, url) ==
    IF o.recorded
    THEN [pr EXCEPT !.step_info.screenshot_url = url, !.enhanced_step.screenshot_url = url]
    ELSE IF o.error
    THEN [pr EXCEPT !.enhanced_step.errors = Append(@, <<"Screenshot save error">>)]
    ELSE pr

WithScreenshot(pr, kind, shot, write_ok, task_id, i, ts) ==
    StoreScreenshot(pr, ShotOutcome(kind, shot, write_ok), ScreenshotUrl(task_id, i, ts))

\* line 561: all(r.get('success', True) for r in results_data) if results_data
\* else True
AllSucceeded(results_data) ==
    IF results_data # <<>>
    THEN \A k \in 1..Len(results_data) : Truthy(results_data[k].success)
    ELSE TRUE

\* actions[0]['type'] if actions else 'unknown'
FirstType(actions) == IF actions # <<>> THEN actions[1].type ELSE "unknown"

\* lines 545-579: the two records of a step with the given actions and results
HistoryPair(i, actions, results_data, action_type, success) ==
    [step_info |-> [InitialStepInfo(i) EXCEPT
                       !.action = StepLabel(i) \o JoinTypes(actions),
                       !.result = <<"Results:", ToString(Len(results_data)), "actions completed">>,
                       !.hasActions = TRUE,
                       !.actions = actions,
                       !.results = results_data,
                       !.action_type = action_type,
                       !.success = success],
     enhanced_step |-> [InitialEnhancedStep(i) EXCEPT
                       !.action_summary = StepLabel(i) \o JoinTypes(actions),
                       !.action_details = [actions |-> actions],
                       !.result_summary = <<"Completed", ToString(Len(results_data)), "actions">>,
                       !.result_details = [results |-> results_data],
                       !.action_type = action_type,
                       !.success_status = IF success THEN "success" ELSE "failed"]]

\* lines 545-607 on the extracted actions and results: the records, the
\* screenshot, the thought enrichment of line 605
HistoryStep(step, i, agent_thoughts, write_ok, task_id, ts, actions, results_data) ==
    EnhanceStepWithThoughts(
        WithScreenshot(HistoryPair(i, actions, results_data, FirstType(actions),
                                   AllSucceeded(results_data)),
                       "history", step.shot, write_ok, task_id, i, ts),
        i, agent_thoughts, actions)

\* lines 487-607: a step with model_output and result
HistoryBranch(step, i, agent_thoughts, write_ok, task_id, ts) ==
    HistoryStep(step, i, agent_thoughts, write_ok, task_id, ts,
                [k \in 1..Len(step.action) |-> ExtractAction(step.action[k])],
                ExtractResults(step.result))

\* str(x) if x else "N/A" of a tuple item
StrOrNA(item) == IF TruthyText(item) THEN item ELSE NA

\* lines 617-634: the records of a tuple of at least two items
TuplePair(start, action_data, result_data) ==
    [step_info |-> [start.step_info EXCEPT !.action = action_data,
                                            !.result = result_data],
     enhanced_step |-> [start.enhanced_step EXCEPT
         !.action_summary = ExtractActionSummary(action_data),
         !.action_details = ParseActionDetails(action_data),
         !.result_summary = ExtractResultSummary(result_data),
         !.result_details = ParseResultDetails(result_data),
         !.action_type = ClassifyActionType(action_data),
         !.success_status = DetermineSuccessStatus(result_data)]]

\* the records a branch starts from
StartPair(i) == [step_info |-> InitialStepInfo(i), enhanced_step |-> InitialEnhancedStep(i)]

\* lines 610-662: a tuple
TupleBranch(step, i, agent_thoughts, write_ok, task_id, ts) ==
    WithScreenshot(
        IF Len(step.items) >= 2
        THEN EnhanceStepWithThoughts(
                 TuplePair(StartPair(i), StrOrNA(step.items[1]), StrOrNA(step.items[2])),
                 i, agent_thoughts, <<>>)
        ELSE StartPair(i),
        "tuple", step.shot, write_ok, task_id, i, ts)

\* lines 674-689: the first non-empty action attribute
WithAction(pr, act) ==
    IF TruthyText(act)
    THEN [pr EXCEPT !.step_info.action = act,
                    !.enhanced_step.action_summary = ExtractActionSummary(act),
                    !.enhanced_step.action_details = ParseActionDetails(act),
                    !.enhanced_step.action_type = ClassifyActionType(act)]
    ELSE pr

\* lines 691-706: the first non-empty result attribute
WithResult(pr, res) ==
    IF TruthyText(res)
    THEN [pr EXCEPT !.step_info.result = res,
                    !.enhanced_step.result_summary = ExtractResultSummary(res),
                    !.enhanced_step.result_details = ParseResultDetails(res),
                    !.enhanced_step.success_status = DetermineSuccessStatus(res)]
    ELSE pr

\* lines 664-751: any other object, probed for action, result and screenshot
ObjectBranch(step, i, write_ok, task_id, ts) ==
    WithScreenshot(WithResult(WithAction(StartPair(i), step.act), step.res),
                   "object", step.shot, write_ok, task_id, i, ts)

\* the step raises: an action item of a "history" step lacks a sub-field
StepRaises(step) ==
    step.kind = "history" /\ \E k \in 1..Len(step.action) : ItemRaises(step.action[k])

\* lines 453-754: one pass of the loop body for a step that does not raise, up
\* to the thought enrichment of line 754 on the outcome of the cascade
NormalizeStep(step, i, agent_thoughts, write_ok, task_id, ts) ==
    EnhanceStepWithThoughts(
        IF step.kind = "history"
        THEN HistoryBranch(step, i, agent_thoughts, write_ok, task_id, ts)
        ELSE IF step.kind = "tuple"
        THEN TupleBranch(step, i, agent_thoughts, write_ok, task_id, ts)
        ELSE ObjectBranch(step, i, write_ok, task_id, ts),
        i, agent_thoughts, <<>>)

\* lines 404-417: the results a call starts from
InitialResults(task_id, task_details, agent_thoughts) ==
    [task_id |-> task_id, task_details |-> task_details,
     execution_steps |-> <<>>, screenshots |-> <<>>, screenshot_urls |-> <<>>,
     success |-> PyFalse, error |-> None, full_conversation |-> <<>>,
     enhanced_steps |-> <<>>, agent_thoughts |-> agent_thoughts, log_file |-> None]

\* the end of a pass: the screenshot references appended to results (inside the
\* branches), the conversation entry (lines 757-828), the two records (830-831)
AppendStep(acc, pair, shot, i, env) ==
    [results |-> [acc.results EXCEPT
        !.screenshots = IF shot.recorded
                        THEN Append(@, ScreenshotPath(env.task_id, i, env.ts)) ELSE @,
        !.screenshot_urls = IF shot.recorded
                            THEN Append(@, ScreenshotUrl(env.task_id, i, env.ts)) ELSE @,
        !.full_conversation = IF pair.step_info.action # NA
                              THEN Append(@, [step |-> i]) ELSE @,
        !.execution_steps = Append(@, pair.step_info),
        !.enhanced_steps = Append(@, pair.enhanced_step)],
     files |-> IF shot.wrote THEN acc.files \cup {i} ELSE acc.files]

\* lines 452-842: the loop over the history from step i on.  acc holds the
\* results so far and the screenshot files written so far; env the task id, the
\* timestamp, the thoughts and the steps whose screenshot write fails.  An
\* exception in a step is caught outside the loop (line 838).
RECURSIVE NormalizeFrom(_, _, _, _)
NormalizeFrom(acc, history_list, i, env) ==
    IF i > Len(history_list) THEN [acc EXCEPT !.results.success = PyTrue]
    ELSE IF StepRaises(history_list[i])
    THEN [acc EXCEPT !.results.error = <<"AttributeError">>]
    ELSE NormalizeFrom(
             AppendStep(acc,
                        NormalizeStep(history_list[i], i, env.agent_thoughts,
                                      i \notin env.write_fail, env.task_id, env.ts),
                        ShotOutcome(history_list[i].kind, history_list[i].shot,
                                    i \notin env.write_fail),
                        i, env),
             history_list, i + 1, env)

\* lines 844-852: the execution log written, or the error of line 852
SaveLog(acc, log_file, log_ok) ==
    IF log_ok
    THEN [results |-> [acc.results EXCEPT !.log_file = log_file],
          files |-> acc.files, persisted |-> <<acc.results>>]
    ELSE [results |-> [acc.results EXCEPT !.error = <<"Error saving results">>],
          files |-> acc.files, persisted |-> <<>>]

\* the loop entered only for a non-empty history (line 449)
NormalizeHistory(start, history, env) ==
    IF history # <<>> THEN NormalizeFrom(start, history, 1, env) ELSE start

\* save_execution_results(history, task_details, task_id) called at clock t with
\* the thoughts load_agent_thoughts returned; write_fail: the steps whose
\* screenshot cannot be written, log_ok: whether the execution log can be.
\* Returns results, the screenshot files written (by step) and the log written.
SaveExecutionResults(history, task_details, task_id, t, agent_thoughts, write_fail, log_ok) ==
    SaveLog(NormalizeHistory(
                [results |-> InitialResults(task_id, task_details, agent_thoughts),
                 files |-> {}],
                history,
                [task_id |-> task_id, ts |-> StrfTime(t),
                 agent_thoughts |-> agent_thoughts, write_fail |-> write_fail]),
            <<"operation_logs/browser_execution_">> \o task_id \o StrfTime(t),
            log_ok)

(***************************************************************************)
(* The normalizer's inputs: raw steps of every shape the cascade tells     *)
(* apart.                                                                  *)
(***************************************************************************)
RawStep(kind, action, result, items, act, res, shot) ==
    [kind |-> kind, action |-> action, result |-> result, items |-> items,
     act |-> act, res |-> res, shot |-> shot]

ActionItem(attr, arg, complete) == [attr |-> attr, arg |-> arg, complete |-> complete]

ActionResultOf(content, is_done, success) ==
    [has_content |-> TRUE, content |-> content, is_done |-> is_done,
     success |-> success, error |-> None]

\* go_to_url the target; the result says so; a screenshot in state
RawNav ==
    RawStep("history", <<ActionItem("go_to_url", URL_X_SLASH, TRUE)>>,
            <<ActionResultOf(NAVIGATED_TO_X, FALSE, PyNone)>>, <<>>, None, None, "b64")
\* a click whose action result extracted nothing
RawNullContent ==
    RawStep("history", <<ActionItem("click_element_by_index", <<>>, TRUE)>>,
            <<ActionResultOf(None, FALSE, PyNone)>>, <<>>, None, None, "none")
\* done, reported successful
RawDone ==
    RawStep("history", <<ActionItem("done", <<"finished">>, TRUE)>>,
            <<ActionResultOf(<<"finished">>, TRUE, PyTrue)>>, <<>>, None, None, "none")
\* done by a backend whose done action has no success field
RawBroken ==
    RawStep("history", <<ActionItem("done", <<"finished">>, FALSE)>>,
            <<ActionResultOf(<<"finished">>, TRUE, PyTrue)>>, <<>>, None, None, "none")
\* an (action, result) tuple with screenshot bytes on an item
RawTuple ==
    RawStep("tuple", <<>>, <<>>, <<<<"click", "button">>, <<"clicked">>>>, None, None, "bytes")
\* a tuple of one item
RawShortTuple ==
    RawStep("tuple", <<>>, <<>>, <<<<"click", "button">>>>, None, None, "none")
\* an object with an action, a result and a screenshot URL
RawObject ==
    RawStep("object", <<>>, <<>>, <<>>, <<"open", "X.COM", "page">>, <<"loaded">>, "http")
\* an object none of whose probed attributes is present
RawUnknown ==
    RawStep("object", <<>>, <<>>, <<>>, None, None, "none")

\* a text longer than a truncated summary with its ellipsis, none of the words
\* the summaries look for in it (one token per character)
LongText == [k \in 1..(SummaryBudget + Len(ELLIPSIS[1]) + 1) |-> "a"]
\* an (action, result) tuple of two long texts
RawLongTuple ==
    RawStep("tuple", <<>>, <<>>, <<LongText, LongText>>, None, None, "none")

RawSteps == {RawNav, RawNullContent, RawDone, RawBroken, RawTuple, RawShortTuple,
             RawObject, RawUnknown, RawLongTuple}

Thought(type, message) == [type |-> type, message |-> message]

Thoughts == {Thought("action", <<"open", "the", "site">>),
             Thought("decision", <<"use", "the", "menu">>)}

TASK_1 == <<"task_1">>

TaskDetails(target_url, required) ==
    [target_url |-> target_url, task_description |-> <<"test the site">>,
     screenshot_instructions |-> ListOf(required, "instruction")]

\* the steps of a history that have a screenshot to write
ShotSteps(history) == {k \in 1..Len(history) : history[k].shot # "none"}

InitNorm ==
    /\ n_history \in SeqsUpTo(RawSteps, MaxSteps)
    /\ n_thoughts \in SeqsUpTo(Thoughts, MaxThoughts)
    /\ n_out = <<>>
    /\ n_report = <<>>
    /\ n_pc = "start"
    /\ now = 0
    /\ AnaIdle
    /\ SvcIdle
    /\ ThIdle
    /\ WIdle

\* save_execution_results on the history
Normalize ==
    /\ n_pc = "start"
    /\ \E write_fail \in SUBSET ShotSteps(n_history), log_ok \in BOOLEAN :
          n_out' = SaveExecutionResults(n_history, TaskDetails(URL_X, 0), TASK_1, 0,
                                        n_thoughts, write_fail, log_ok)
    /\ n_pc' = "normalized"
    /\ UNCHANGED <<n_history, n_thoughts, n_report>>
    /\ UNCHANGED notNorm

\* analyze_results_direct on what the normalizer returned
AnalyzeNormalized ==
    /\ n_pc = "normalized"
    /\ \E target_url \in TargetUrls, write_ok \in BOOLEAN :
          n_report' = AnalyzeResultsDirect(n_out.results, TaskDetails(target_url, 0),
                                           1, write_ok)
    /\ n_pc' = "analyzed"
    /\ UNCHANGED <<n_history, n_thoughts, n_out>>
    /\ UNCHANGED notNorm

NextNorm == Normalize \/ AnalyzeNormalized

(***************************************************************************)
(* Claims about the normalizer, checked under SpecNorm.                    *)
(***************************************************************************)
\* the normalizer has returned
Normalized == n_pc \in {"normalized", "analyzed"}

\* the steps of the history whose normalization raises
RaisingSteps == {k \in 1..Len(n_history) : StepRaises(n_history[k])}

\* entry k of both lists of the returned results is numbered k and comes from
\* raw step k: it lists actions exactly when raw step k is an agent-history step
DescribesRawStep(k) ==
    /\ n_out.results.execution_steps[k].step_number = k
    /\ n_out.results.enhanced_steps[k].step_number = k
    /\ n_out.results.execution_steps[k].hasActions = (n_history[k].kind = "history")

\* C1: for a raw history of N steps the normalizer returns exactly N entries in
\* execution_steps and N in enhanced_steps, the k-th numbered k and describing
\* the k-th raw step.
C1_OneEntryPerRawStep ==
    Normalized =>
        /\ Len(n_out.results.execution_steps) = Len(n_history)
        /\ Len(n_out.results.enhanced_steps) = Len(n_history)
        /\ \A k \in 1..Len(n_history) : DescribesRawStep(k)

\* C2: when normalizing raw step k raises, step k alone is degraded to the
\* placeholder with the failure in its own errors field, and the steps after k
\* are still normalized and appended.
C2_FailureDegradesOneStep ==
    Normalized =>
        \A k \in RaisingSteps :
            /\ Len(n_out.results.enhanced_steps) = Len(n_history)
            /\ n_out.results.enhanced_steps[k].action_summary = <<"Unknown action">>
            /\ n_out.results.enhanced_steps[k].errors # <<>>

\* C3: analyze_results_direct never raises on results the normalizer produced,
\* a null result content included.
C3_AnalyzerNeverRaises ==
    n_pc = "analyzed" => ~n_report.raised

\* the returned steps that carry a screenshot reference
ReferencedSteps ==
    {k \in 1..Len(n_out.results.execution_steps) :
        n_out.results.execution_steps[k].screenshot_url # None}

\* C18: a step has a non-null screenshot reference, and one entry is appended
\* to results.screenshots and to screenshot_urls, if and only if a screenshot
\* file was written for that step; a value that fits no writable format leaves
\* the reference null and appends nothing.
C18_ReferenceIffFileWritten ==
    Normalized =>
        /\ ReferencedSteps = n_out.files
        /\ Len(n_out.results.screenshots) = Cardinality(n_out.files)
        /\ Len(n_out.results.screenshot_urls) = Cardinality(n_out.files)

\* a raw step that matches no branch of the cascade: not an agent-history step,
\* not a tuple of at least two items, none of the probed attributes set
Unrecognized(step) ==
    \/ step.kind = "tuple" /\ Len(step.items) < 2 /\ step.shot = "none"
    \/ step.kind = "object" /\ ~TruthyText(step.act) /\ ~TruthyText(step.res)
          /\ step.shot = "none"

\* the raw steps that were normalized and appended
AppendedSteps == 1..Min(Len(n_history), Len(n_out.results.enhanced_steps))

\* C22: for every raw step that matches no cascade branch the normalized step's
\* final action_summary is "Unknown action" and its result_summary is
\* "No result available", also after the thought enrichment has run
C22_UnrecognizedStepFallback ==
    Normalized =>
        \A k \in AppendedSteps :
            Unrecognized(n_history[k]) =>
                /\ n_out.results.enhanced_steps[k].action_summary = <<"Unknown action">>
                /\ n_out.results.enhanced_steps[k].result_summary = <<"No result available">>

\* some extracted action result of the raw step explicitly reports success = false
ReportsFailure(step) ==
    \E j \in 1..Len(step.result) :
        step.result[j].has_content /\ step.result[j].success = PyFalse

\* C27: a raw step with model_output and result is marked failed (success =
\* false, success_status = "failed") only if some action result explicitly
\* reports success = false; results whose success is absent or null count as
\* successful, so such a step gets success_status = "success"
C27_NullSuccessCountsAsSuccess ==
    Normalized =>
        \A k \in AppendedSteps :
            (n_history[k].kind = "history" /\ ~ReportsFailure(n_history[k])) =>
                /\ n_out.results.execution_steps[k].success
                /\ n_out.results.enhanced_steps[k].success_status = "success"

\* len(text): the characters of a text
RECURSIVE Chars(_)
Chars(text) == IF text = <<>> THEN 0 ELSE Len(Head(text)) + Chars(Tail(text))

\* the raw steps normalized through the tuple branch or the attribute probing
SummarizedSteps ==
    {k \in AppendedSteps :
        \/ n_history[k].kind = "tuple" /\ Len(n_history[k].items) >= 2
        \/ n_history[k].kind = "object"}

\* C25: for every step normalized through the tuple branch or the
\* attribute-probing branch the final action_summary and result_summary are at
\* most 60 characters followed by the ellipsis marker (at most 63 characters),
\* while the full text stays in the details fields
C25_SummariesWithinBudget ==
    Normalized =>
        \A k \in SummarizedSteps :
            /\ Chars(n_out.results.enhanced_steps[k].action_summary)
                   <= SummaryBudget + Chars(ELLIPSIS)
            /\ Chars(n_out.results.enhanced_steps[k].result_summary)
                   <= SummaryBudget + Chars(ELLIPSIS)
            /\ n_history[k].kind = "tuple" =>
                   /\ n_out.results.enhanced_steps[k].action_details
                          = ParseActionDetails(StrOrNA(n_history[k].items[1]))
                   /\ n_out.results.enhanced_steps[k].result_details
                          = ParseResultDetails(StrOrNA(n_history[k].items[2]))

(***************************************************************************)
(* The thoughts log: AgentLogger writes agent_thoughts_<task_id>.txt and   *)
(* load_agent_thoughts reads it back.  The file is a text whose lines end  *)
(* with the token "\n"; the file is readable.                              *)
(***************************************************************************)
NL == "\n"
SP == " "
ICON_ACTION == "<zap>"
ICON_OBSERVATION == "<eye>"
ICON_DECISION == "<compass>"
ICON_ERROR == "<cross>"
ICON_SUCCESS == "<check>"
ICON_INFO == "<thought>"

\* index of the first occurrence of sub in s, 0 when there is none
FirstIndex(s, sub) ==
    LET ks == {k \in 1..(Len(s) - Len(sub) + 1) : SubSeq(s, k, k + Len(sub) - 1) = sub}
    IN  IF ks = {} THEN 0 ELSE CHOOSE k \in ks : \A j \in ks : k <= j

\* s.split(sep, 1) at index k of the separator
SplitAt(s, sep, k) ==
    IF k = 0 THEN <<s>>
    ELSE <<SubSeq(s, 1, k - 1), SubSeq(s, k + Len(sep), Len(s))>>

\* s.split(sep, 1)
SplitOnce(s, sep) == SplitAt(s, sep, FirstIndex(s, sep))

\* s.strip()
RECURSIVE Strip(_)
Strip(s) ==
    IF s # <<>> /\ s[1] \in {SP, NL} THEN Strip(Tail(s))
    ELSE IF s # <<>> /\ s[Len(s)] \in {SP, NL} THEN Strip(SubSeq(s, 1, Len(s) - 1))
    ELSE s

\* the lines of a text, as iterating over the file yields them
RECURSIVE Lines(_)
Lines(text) ==
    IF text = <<>> THEN <<>>
    ELSE IF FirstIndex(text, <<NL>>) = 0 THEN <<text>>
    ELSE <<SubSeq(text, 1, FirstIndex(text, <<NL>>))>>
         \o Lines(SubSeq(text, FirstIndex(text, <<NL>>) + 1, Len(text)))

\* datetime.now().strftime("%Y-%m-%d %H:%M:%S")
LogTimestamp(t) == <<"ts", ToString(t \div TicksPerSecond)>>

\* _initialize_log_file: the session header
LogHeader(task_id, t) ==
    <<"=== AI AGENT EXECUTION LOG ===", NL, "Task ID", ":", SP>> \o task_id
    \o <<NL, "Session Start", ":", SP>> \o LogTimestamp(t)
    \o <<NL, "=====", NL, NL>>

\* log_thought, lines 1437-1454: the icon of a message
IconOf(message) ==
    IF Contains(message, <<"ACTION", ":">>) THEN ICON_ACTION
    ELSE IF Contains(message, <<"OBSERVATION", ":">>) THEN ICON_OBSERVATION
    ELSE IF Contains(message, <<"DECISION", ":">>) THEN ICON_DECISION
    ELSE IF Contains(message, <<"ERROR", ":">>) \/ Contains(message, <<ICON_ERROR>>)
         THEN ICON_ERROR
    ELSE IF Contains(message, <<"SUCCESS", ":">>) \/ Contains(message, <<ICON_SUCCESS>>)
         THEN ICON_SUCCESS
    ELSE ICON_INFO

\* log_thought: the counter of the message's icon is incremented
Counted(counts, icon) ==
    IF icon = ICON_INFO THEN counts ELSE [counts EXCEPT ![icon] = @ + 1]

NoCounts ==
    [icon \in {ICON_ACTION, ICON_OBSERVATION, ICON_DECISION, ICON_ERROR, ICON_SUCCESS}
        |-> 0]

\* log_thought, line 1457: f"[{timestamp}] {icon} {message}\n"
LogEntry(message, t) ==
    <<"[">> \o LogTimestamp(t) \o <<"]", SP, IconOf(message), SP>> \o message \o <<NL>>

\* the message log_action, log_observation and log_decision hand to log_thought
Prefixed(type, message) == <<type, ":", SP>> \o message

ThoughtTypes == {"ACTION", "OBSERVATION", "DECISION"}

\* line 371: the line holds one of the three markers
HasMarker(line) ==
    \E type \in ThoughtTypes : Contains(line, <<"]", SP, type, ":">>)

\* lines 379-385: the content part split at its first ': '
ParseContent(timestamp_part, content_part) ==
    IF Contains(content_part, <<":", SP>>)
    THEN <<[timestamp |-> timestamp_part,
            type |-> Lower(SplitOnce(content_part, <<":", SP>>)[1]),
            message |-> SplitOnce(content_part, <<":", SP>>)[2]]>>
    ELSE <<>>

\* lines 373-385 on the parts of line.split('] ', 1)
ParseParts(parts) ==
    IF Len(parts) = 2 THEN ParseContent(Tail(parts[1]), parts[2]) ELSE <<>>

\* lines 370-385: the thought of one line, if it is one
ParseLine(line) ==
    IF line # <<>> /\ HasMarker(line) THEN ParseParts(SplitOnce(line, <<"]", SP>>))
    ELSE <<>>

RECURSIVE ParseLines(_)
ParseLines(lines) ==
    IF lines = <<>> THEN <<>>
    ELSE ParseLine(Strip(Head(lines))) \o ParseLines(Tail(lines))

\* load_agent_thoughts on the content of the task's thoughts file
LoadAgentThoughtsOf(file) == ParseLines(Lines(file))

M_OPEN == <<"open the site">>
M_MENU == <<"menu", ":", SP, "opened">>
M_TWO_LINES == <<"first", NL, "second">>
LoggedMessages == {M_OPEN, M_MENU, M_TWO_LINES}

MaxLogged == 2

\* AgentLogger(logs_dir, task_id): the log file created with its header
InitThoughts ==
    /\ th_file = LogHeader(TASK_1, 0)
    /\ th_counts = NoCounts
    /\ th_logged = <<>>
    /\ th_loaded = <<>>
    /\ th_pc = "logging"
    /\ now = 0
    /\ AnaIdle
    /\ NormIdle
    /\ SvcIdle
    /\ WIdle

\* the agent calls log_action, log_observation or log_decision, which call
\* log_thought with the prefixed message
LogThought ==
    /\ th_pc = "logging"
    /\ Len(th_logged) < MaxLogged
    /\ \E type \in ThoughtTypes, message \in LoggedMessages :
          /\ th_file' = th_file \o LogEntry(Prefixed(type, message), now)
          /\ th_counts' = Counted(th_counts, IconOf(Prefixed(type, message)))
          /\ th_logged' = Append(th_logged, [type |-> type, message |-> message])
    /\ UNCHANGED <<th_loaded, th_pc, now>>
    /\ UNCHANGED notTh

\* save_execution_results calls load_agent_thoughts(task_id) after the run
LoadAgentThoughts ==
    /\ th_pc = "logging"
    /\ th_loaded' = LoadAgentThoughtsOf(th_file)
    /\ th_pc' = "loaded"
    /\ UNCHANGED <<th_file, th_counts, th_logged, now>>
    /\ UNCHANGED notTh

NextThoughts == LogThought \/ LoadAgentThoughts

\* the loaded entries as (type, message) pairs
LoadedPairs == [k \in 1..Len(th_loaded) |->
                    [type |-> th_loaded[k].type, message |-> th_loaded[k].message]]

\* the logged thoughts as the entries the claim expects
ExpectedPairs == [k \in 1..Len(th_logged) |->
                    [type |-> Lower(<<th_logged[k].type>>),
                     message |-> th_logged[k].message]]

\* C23: every action, observation and decision message logged through
\* log_thought during a task is returned by load_agent_thoughts for the same
\* task as one entry of the matching type with the same message, in logging order
C23_LoggedThoughtsAreLoaded ==
    th_pc = "loaded" => LoadedPairs = ExpectedPairs

(***************************************************************************)
(* enhance_step_with_thoughts over the steps of one history: the thoughts  *)
(* each step is given.                                                     *)
(***************************************************************************)
MaxLoaded == 4       \* most thoughts handed to the enhancement
MaxEnhSteps == 3     \* longest history enhanced

\* the i-th loaded thought
NthThought(type, i) == Thought(type, <<"thought", ToString(i)>>)

InitEnhance ==
    /\ \E T \in 0..MaxLoaded :
          w_thoughts \in {[i \in 1..T |-> NthThought(f[i], i)] :
                             f \in [1..T -> {"action", "decision"}]}
    /\ w_steps \in 1..MaxEnhSteps
    /\ w_enhanced = <<>>
    /\ now = 0
    /\ AnaIdle
    /\ NormIdle
    /\ SvcIdle
    /\ ThIdle

\* the loop of save_execution_results reaches the next step and line 754 calls
\* enhance_step_with_thoughts(step_info, enhanced_step, i+1, agent_thoughts)
EnhanceStep ==
    /\ Len(w_enhanced) < w_steps
    /\ w_enhanced' =
          Append(w_enhanced,
                 [window |-> ThoughtWindow(w_thoughts, Len(w_enhanced) + 1),
                  enhanced_step |->
                      EnhanceStepWithThoughts(StartPair(Len(w_enhanced) + 1),
                                              Len(w_enhanced) + 1, w_thoughts,
                                              <<>>).enhanced_step])
    /\ UNCHANGED <<w_thoughts, w_steps>>
    /\ UNCHANGED notW

NextEnhance == EnhanceStep

\* the even per-step quota of the claim: max(1, floor(T / N))
Quota == Max(1, Len(w_thoughts) \div w_steps)

\* C24: step k is given the thoughts of a window that starts at (k-1) * q and
\* holds at most q + 2 entries, q = max(1, floor(T / N)) the same for every step
C24_EvenThoughtWindows ==
    \A k \in 1..Len(w_enhanced) :
        /\ Len(w_enhanced[k].window) <= Quota + 2
        /\ w_enhanced[k].window =
               SubSeq(w_thoughts, (k - 1) * Quota + 1,
                      (k - 1) * Quota + Len(w_enhanced[k].window))

(***************************************************************************)
(* analyze_results_endpoint: the narrative of an analysis request          *)
(*                                                                         *)
(* A content is a string the narrative service returned, after             *)
(* str(...).strip(): its text and its length in characters.  An absent     *)
(* attribute, None and the empty string are all NoContent.  A plan run is  *)
(* what portia_agent.run returned: has_outputs and outputs (final_output   *)
(* with its value and its str, step_outputs by key, the str of outputs     *)
(* with the markers found in it and the part cut out between them),        *)
(* final_output, output, steps (each a function from its attributes to     *)
(* contents) and attrs (the further attributes of the plan run).           *)
(***************************************************************************)
Content(text, chars) == [text |-> text, chars |-> chars]
NoContent == Content(<<>>, 0)
HasContent(c) == c.chars > 0

\* the extraction so far: ai_analysis (NoContent for None) and extraction_method
Extracted(c, method) == [ai_analysis |-> c, extraction_method |-> method]
NothingExtracted == Extracted(NoContent, <<"unknown">>)
Found(r) == HasContent(r.ai_analysis)

\* lines 1754-1760: outputs.final_output.value, more than 20 characters
FinalOutputValue(final_output, r) ==
    IF HasContent(final_output.value) /\ final_output.value.chars > 20
    THEN Extracted(final_output.value, <<"outputs_final_output_value">>)
    ELSE r

\* lines 1762-1768: str(final_output), not a LocalDataValue representation
FinalOutputString(final_output, r) ==
    IF ~Found(r) /\ final_output.str.chars > 20
       /\ ~StartsWith(final_output.str.text, <<"LocalDataValue">>)
    THEN Extracted(final_output.str, <<"outputs_final_output_string">>)
    ELSE r

\* lines 1748-1768
FromFinalOutput(outputs, r) ==
    IF outputs.has_final_output
    THEN FinalOutputString(outputs.final_output, FinalOutputValue(outputs.final_output, r))
    ELSE r

STEP_OUTPUT_KEYS == <<"$analysis", "analysis", "result", "output">>

\* lines 1777-1795: the keys of step_outputs in order, up to the first that
\* yields content; an entry has a value (NoContent when it has none) or is a
\* string (str, NoContent when it is not)
RECURSIVE StepOutputsFrom(_, _, _)
StepOutputsFrom(step_outputs, keys, r) ==
    IF keys = <<>> THEN r
    ELSE IF Head(keys) \notin DOMAIN step_outputs
    THEN StepOutputsFrom(step_outputs, Tail(keys), r)
    ELSE IF HasContent(step_outputs[Head(keys)].value)
    THEN (IF step_outputs[Head(keys)].value.chars > 20
          THEN Extracted(step_outputs[Head(keys)].value,
                         <<"outputs_step_outputs_", Head(keys), "_value">>)
          ELSE StepOutputsFrom(step_outputs, Tail(keys), r))
    ELSE IF step_outputs[Head(keys)].str.chars > 20
    THEN Extracted(step_outputs[Head(keys)].str, <<"outputs_step_outputs_", Head(keys)>>)
    ELSE StepOutputsFrom(step_outputs, Tail(keys), r)

\* lines 1771-1795
FromStepOutputs(outputs, r) ==
    IF ~Found(r) /\ DOMAIN outputs.step_outputs # {}
    THEN StepOutputsFrom(outputs.step_outputs, STEP_OUTPUT_KEYS, r)
    ELSE r

EXECUTIVE_SUMMARY == "**Executive Summary:**"
KEY_FINDINGS == "**Key Findings:**"
HERES_AN_ANALYSIS == "Here's an analysis"

\* lines 1798-1828: the analysis cut out of str(outputs), more than 50 characters
FromOutputsString(outputs, r) ==
    IF ~Found(r)
       /\ (EXECUTIVE_SUMMARY \in outputs.str.markers \/ KEY_FINDINGS \in outputs.str.markers)
       /\ (HERES_AN_ANALYSIS \in outputs.str.markers \/ EXECUTIVE_SUMMARY \in outputs.str.markers)
       /\ outputs.str.extracted.chars > 50
    THEN Extracted(outputs.str.extracted, <<"outputs_string_parsed">>)
    ELSE r

\* lines 1743-1828, Method 1: plan_run.outputs
FromOutputs(plan_run, r) ==
    IF plan_run.has_outputs
    THEN FromOutputsString(plan_run.outputs,
             FromStepOutputs(plan_run.outputs, FromFinalOutput(plan_run.outputs, r)))
    ELSE r

\* the tests of a content for an object representation
IsRunRepr(c) == StartsWith(c.text, <<"Run(id=">>) \/ StartsWith(c.text, <<"PlanRun(id=">>)
IsAngleRepr(c) == StartsWith(c.text, <<"<">>)
HasObjectAt(c) == Contains(c.text, <<"object at 0x">>)

\* lines 1830-1843, Method 2: plan_run.final_output
FromPlanFinalOutput(plan_run, r) ==
    IF ~Found(r) /\ HasContent(plan_run.final_output)
       /\ plan_run.final_output.chars > 5
       /\ ~IsRunRepr(plan_run.final_output) /\ ~IsAngleRepr(plan_run.final_output)
       /\ plan_run.final_output.text # <<"set">>
       /\ ~HasObjectAt(plan_run.final_output)
    THEN Extracted(plan_run.final_output, <<"final_output">>)
    ELSE r

\* lines 1845-1856, Method 3: plan_run.output
FromPlanOutput(plan_run, r) ==
    IF ~Found(r) /\ HasContent(plan_run.output)
       /\ plan_run.output.chars > 5
       /\ ~IsRunRepr(plan_run.output) /\ ~IsAngleRepr(plan_run.output)
       /\ ~HasObjectAt(plan_run.output)
    THEN Extracted(plan_run.output, <<"output">>)
    ELSE r

STEP_ATTRS == <<"output", "result", "content", "response", "text">>
PLAN_ATTRS == <<"result", "content", "response", "text", "analysis", "summary">>

\* lines 1866-1878: the attributes of one step in order, up to the first accepted
RECURSIVE StepAttrsFrom(_, _, _, _)
StepAttrsFrom(step, i, attrs, r) ==
    IF attrs = <<>> THEN r
    ELSE IF Head(attrs) \in DOMAIN step /\ HasContent(step[Head(attrs)])
            /\ step[Head(attrs)].chars > 5 /\ ~IsRunRepr(step[Head(attrs)])
    THEN Extracted(step[Head(attrs)], <<"step_", ToString(i - 1), "_", Head(attrs)>>)
    ELSE StepAttrsFrom(step, i, Tail(attrs), r)

\* lines 1861-1880: the steps in order, up to the first that yields content
RECURSIVE StepsFrom(_, _, _)
StepsFrom(steps, i, r) ==
    IF i > Len(steps) \/ Found(r) THEN r
    ELSE StepsFrom(steps, i + 1, StepAttrsFrom(steps[i], i, STEP_ATTRS, r))

\* lines 1858-1880, Method 4: plan_run.steps
FromSteps(plan_run, r) ==
    IF ~Found(r) /\ plan_run.steps # <<>> THEN StepsFrom(plan_run.steps, 1, r) ELSE r

\* lines 1884-1896: the further attributes in order, up to the first accepted
RECURSIVE PlanAttrsFrom(_, _, _)
PlanAttrsFrom(plan_attrs, attrs, r) ==
    IF attrs = <<>> THEN r
    ELSE IF Head(attrs) \in DOMAIN plan_attrs /\ HasContent(plan_attrs[Head(attrs)])
            /\ plan_attrs[Head(attrs)].chars > 5 /\ ~IsRunRepr(plan_attrs[Head(attrs)])
            /\ ~HasObjectAt(plan_attrs[Head(attrs)])
    THEN Extracted(plan_attrs[Head(attrs)], <<"attribute_", Head(attrs)>>)
    ELSE PlanAttrsFrom(plan_attrs, Tail(attrs), r)

\* lines 1882-1896, Method 5
FromPlanAttrs(plan_run, r) ==
    IF ~Found(r) THEN PlanAttrsFrom(plan_run.attrs, PLAN_ATTRS, r) ELSE r

\* lines 1734-1896: the five methods in order
ExtractAnalysis(plan_run) ==
    FromPlanAttrs(plan_run,
        FromSteps(plan_run,
            FromPlanOutput(plan_run,
                FromPlanFinalOutput(plan_run,
                    FromOutputs(plan_run, NothingExtracted)))))

MutSufficient(r) == TRUE

\* lines 1898-1905: the extracted analysis is accepted
Sufficient(r) == Found(r) /\ r.ai_analysis.chars >= 5

\* chr(10).join(f'<bullet> {rec}' for rec in recommendations), "*" for the bullet
RECURSIVE Bullets(_)
Bullets(recs) == IF recs = <<>> THEN <<>> ELSE <<"*">> \o Head(recs) \o Bullets(Tail(recs))

DEFAULT_BULLETS ==
    <<"*", "Review execution logs for detailed information",
      "*", "Check screenshots for visual confirmation",
      "*", "Verify task completion manually if needed">>

\* lines 1911-1933: the templated narrative
FallbackNarrative(task_success, steps_count, screenshots_count, url_accessed, recommendations) ==
    <<"**AI Analysis Report**", "The browser automation task",
      IF task_success THEN "completed successfully" ELSE "encountered issues",
      "with", ToString(steps_count), "execution steps and",
      ToString(screenshots_count), "screenshots captured",
      IF url_accessed THEN "The target URL was accessed properly"
      ELSE "There may have been issues accessing the target URL",
      "Task Status:", IF task_success THEN "Success" ELSE "Failed",
      "Execution Steps:", ToString(steps_count),
      "Visual Documentation:", ToString(screenshots_count),
      "**Recommendations:**">>
    \o (IF recommendations # <<>> THEN Bullets(recommendations) ELSE DEFAULT_BULLETS)
    \o <<"Overall Assessment:", IF task_success /\ url_accessed THEN "PASS" ELSE "NEEDS REVIEW",
         "*Note: This analysis was generated using fallback mode*">>

\* lines 1961-1980: the narrative of the last-resort analysis
EmergencyNarrative(task_id, execution_results, original_instructions) ==
    <<"**Analysis Report (Fallback Mode)**", "Basic analysis completed for task">> \o task_id
    \o <<"Task Status:", execution_results.success,
         "Steps Executed:", ToString(Len(execution_results.execution_steps)),
         "Screenshots:", ToString(Len(execution_results.screenshots)),
         "Target URL:">> \o original_instructions.target_url

\* the names bound in the handler's frame when the try block of line 1690 has
\* run to its end
BoundInTry == {"task_info", "execution_results", "original_instructions",
               "analysis_result_data", "prompt", "ai_analysis"}

\* locals() at line 1942.  "except Exception as portia_error" binds the name
\* while the clause runs and deletes it when the clause ends, so the name is
\* not bound after the clause, whether it ran or not.
LocalsAtStore(portia_failed) ==
    IF portia_failed THEN (BoundInTry \cup {"portia_error"}) \ {"portia_error"}
    ELSE BoundInTry

\* line 1942: "portia" if 'portia_error' not in locals() else "fallback"
AnalysisMethod(portia_failed) ==
    IF "portia_error" \notin LocalsAtStore(portia_failed) THEN "portia" ELSE "fallback"

\* lines 1936-1943
AnalysisResult(task_id, ai_analysis, analysis_result_data, t, portia_failed) ==
    [task_id |-> task_id, analysis_content |-> ai_analysis,
     detailed_analysis |-> analysis_result_data, timestamp |-> IsoFormat(t),
     analysis_method |-> AnalysisMethod(portia_failed)]

\* lines 1958-1984
EmergencyResult(task_id, execution_results, original_instructions, t) ==
    [task_id |-> task_id,
     analysis_content |-> EmergencyNarrative(task_id, execution_results, original_instructions),
     detailed_analysis |-> [error |-> <<"Analysis system unavailable">>, fallback_used |-> TRUE],
     timestamp |-> IsoFormat(t),
     analysis_method |-> "emergency_fallback"]

\* the narrative call failed: it raised, or nothing sufficient was extracted
\* from what it returned (line 1905 raises)
PortiaFailed(portia) == portia.raised \/ ~Sufficient(ExtractAnalysis(portia.plan_run))

\* lines 1690-1943 on the report of the compliance analyzer
NarratedResult(task_id, execution_results, report, portia, t) ==
    IF PortiaFailed(portia)
    THEN AnalysisResult(task_id,
             FallbackNarrative(Truthy(execution_results.success),
                               Len(execution_results.execution_steps),
                               Len(execution_results.screenshots),
                               report.compliance_check.target_url_accessed,
                               report.recommendations),
             report, t, TRUE)
    ELSE AnalysisResult(task_id, ExtractAnalysis(portia.plan_run).ai_analysis.text,
                        report, t, FALSE)

\* lines 1648-1989 on the report: an exception of the analyzer is caught by the
\* outer handler (line 1948)
AnalysisOnReport(task_id, execution_results, original_instructions, report, portia, t) ==
    IF report.raised
    THEN EmergencyResult(task_id, execution_results, original_instructions, t)
    ELSE NarratedResult(task_id, execution_results, report, portia, t)

\* lines 1648-1989: the analysis of a completed task, the narrative call having
\* the outcome portia; write_ok: whether the review file can be written
Analysis(task_id, execution_results, original_instructions, portia, t, write_ok) ==
    AnalysisOnReport(task_id, execution_results, original_instructions,
                     AnalyzeResultsDirect(execution_results, original_instructions, t, write_ok),
                     portia, t)

(***************************************************************************)
(* What the narrative service can answer.                                  *)
(***************************************************************************)
PROSE == Content(<<"**Executive Summary:**", "the test passed">>, 120)
SHORT == Content(<<"ok">>, 2)
BRIEF == Content(<<"all good">>, 8)
OBJECT_REPR == Content(<<"<", "portia.Output ", "object at 0x", "7f3a>">>, 40)
RUN_REPR == Content(<<"Run(id=", "prun-1)">>, 30)
LDV_REPR == Content(<<"LocalDataValue", "(value='')">>, 25)

NoOutputs ==
    [has_final_output |-> FALSE,
     final_output |-> [value |-> NoContent, str |-> NoContent],
     step_outputs |-> EmptyDict,
     str |-> [markers |-> {}, extracted |-> NoContent]]

\* a plan run none of whose probed attributes is present
EmptyPlanRun ==
    [has_outputs |-> FALSE, outputs |-> NoOutputs, final_output |-> NoContent,
     output |-> NoContent, steps |-> <<>>, attrs |-> EmptyDict]

PlanRuns ==
    {EmptyPlanRun,
     \* the analysis is the value of outputs.final_output
     [EmptyPlanRun EXCEPT !.has_outputs = TRUE,
         !.outputs = [NoOutputs EXCEPT !.has_final_output = TRUE,
                                       !.final_output = [value |-> PROSE, str |-> LDV_REPR]]],
     \* nothing but object representations
     [EmptyPlanRun EXCEPT !.has_outputs = TRUE,
         !.outputs = [NoOutputs EXCEPT !.has_final_output = TRUE,
                                       !.final_output = [value |-> NoContent, str |-> LDV_REPR]],
         !.final_output = RUN_REPR, !.output = OBJECT_REPR],
     \* a string under step_outputs['analysis']
     [EmptyPlanRun EXCEPT !.has_outputs = TRUE,
         !.outputs = [NoOutputs EXCEPT
                         !.step_outputs = ("analysis" :> [value |-> NoContent, str |-> PROSE])]],
     \* the analysis inside str(outputs)
     [EmptyPlanRun EXCEPT !.has_outputs = TRUE,
         !.outputs = [NoOutputs EXCEPT
                         !.str = [markers |-> {EXECUTIVE_SUMMARY}, extracted |-> PROSE]]],
     \* a few words in final_output
     [EmptyPlanRun EXCEPT !.final_output = BRIEF],
     \* too short an output
     [EmptyPlanRun EXCEPT !.output = SHORT],
     \* a step whose output is an object representation
     [EmptyPlanRun EXCEPT !.steps = <<("output" :> OBJECT_REPR)>>],
     \* the analysis in the summary attribute
     [EmptyPlanRun EXCEPT !.attrs = ("summary" :> PROSE)]}

\* what portia_agent.run does: it raises, or returns a plan run
PortiaOutcomes ==
    {[raised |-> TRUE, plan_run |-> EmptyPlanRun]}
    \cup {[raised |-> FALSE, plan_run |-> p] : p \in PlanRuns}

(***************************************************************************)
(* The service: the task registry, the start request (execute_test), the   *)
(* background pipeline (BrowserExecutor.execute_task) and the queries.     *)
(*                                                                         *)
(* A pipeline is one scheduled execute_task coroutine; it runs from one    *)
(* await to the next without interleaving.  pc: "scheduled",               *)
(* "agent_created" (awaiting the initial screenshot and the run; nothing   *)
(* suspends in create_browser_agent), "ran" (awaiting the final            *)
(* screenshot), "closing" (awaiting browser.close), "returned", "crashed"  *)
(* (an exception left execute_task).  raised names the call whose          *)
(* exception ended the try block.  sys_stdout is the process-wide          *)
(* sys.stdout: CONSOLE or the pipeline whose tee is installed.             *)
(***************************************************************************)
TaskId(t) == <<"task_", ToString(t)>>
UNKNOWN_ID == <<"task_unknown">>

\* d[k] = v of a Python dict
Put(d, k, v) == [x \in DOMAIN d \cup {k} |-> IF x = k THEN v ELSE d[x]]

\* a key of a task record that holds a dict, before it is written
Absent == [absent |-> TRUE]

MutNewTask(task_id, instructions, t) ==
    [task_id |-> task_id, status |-> "running", start_time |-> IsoFormat(t),
     progress |-> <<"Task queued for execution">>, instructions |-> instructions,
     end_time |-> None, error |-> None, results |-> Absent, analysis |-> Absent]

\* lines 1577-1583; the keys written later are None (Absent) until then
NewTask(task_id, instructions, t) ==
    [task_id |-> task_id, status |-> "pending", start_time |-> IsoFormat(t),
     progress |-> <<"Task queued for execution">>, instructions |-> instructions,
     end_time |-> None, error |-> None, results |-> Absent, analysis |-> Absent]

\* the console: sys.stdout before any execute_task replaced it
CONSOLE == 0

\* what execute_task holds between its awaits.  original_stdout is the
\* sys.stdout found at line 139 (CONSOLE or the pipeline whose tee it was),
\* stdout_capture the pipelines whose text this pipeline's tee has written to
\* its capture and stdout log file, log the execution log as it was written
NewPipeline(task_id, instructions) ==
    [task_id |-> task_id, task_details |-> instructions, pc |-> "scheduled",
     browser_agent |-> FALSE, initial_screenshot |-> FALSE, history |-> <<>>,
     results |-> Absent, log |-> <<>>, raised |-> "none",
     original_stdout |-> CONSOLE, stdout_capture |-> {}, log_stamp |-> None]

\* an HTTP answer
Http(seq, endpoint, task_id, code, body) ==
    [seq |-> seq, endpoint |-> endpoint, task_id |-> task_id, code |-> code, body |-> body]

NoResponse == Http(0, "none", UNKNOWN_ID, 0, <<>>)
NoNarrative == [called |-> FALSE, raised |-> FALSE, plan_run |-> EmptyPlanRun]

InstructionsSet == {TaskDetails(URL_X, 0)}

\* the histories browser_agent.run returns
Histories == {<<>>, <<RawNav, RawDone>>, <<RawNullContent>>, <<RawBroken>>}

\* what load_agent_thoughts reads for the task
LoadedThoughts == {<<>>}

\* lines 108, 135-136, 1408: the log files of a task
DetailedLogPath(task_id, stamp) ==
    <<"operation_logs/detailed_agent_log_">> \o task_id \o <<"_">> \o stamp
StdoutLogPath(task_id, stamp) ==
    <<"operation_logs/agent_stdout_">> \o task_id \o <<"_">> \o stamp
StderrLogPath(task_id, stamp) ==
    <<"operation_logs/agent_stderr_">> \o task_id \o <<"_">> \o stamp
ThoughtsLogPath(task_id) == <<"operation_logs/agent_thoughts_">> \o task_id

\* lines 1137-1143 and 1166-1173: the log file paths added to the results
WithLogFiles(results, task_id, stamp, has_agent) ==
    [detailed_log_file |-> DetailedLogPath(task_id, stamp),
     stdout_log_file |-> StdoutLogPath(task_id, stamp),
     stderr_log_file |-> StderrLogPath(task_id, stamp),
     agent_thoughts_file |-> IF has_agent THEN ThoughtsLogPath(task_id) ELSE None]
    @@ results

\* lines 1157-1173
ErrorResult(task_id, task_details, err, t, stamp, has_agent) ==
    WithLogFiles([task_id |-> task_id, timestamp |-> IsoFormat(t),
                  task_details |-> task_details, success |-> PyFalse, error |-> err,
                  execution_steps |-> <<>>, screenshots |-> <<>>,
                  screenshot_urls |-> <<>>],
                 task_id, stamp, has_agent)

\* lines 1177-1181
MarkFailed(storage, task_id, task_details, err, t, stamp, has_agent) ==
    [storage EXCEPT ![task_id] =
        [@ EXCEPT !.status = "failed", !.end_time = IsoFormat(t), !.error = err,
                  !.results = ErrorResult(task_id, task_details, err, t, stamp,
                                          has_agent)]]

\* lines 1132-1143: results is the dict the registry then holds, so the paths
\* added to it afterwards are in the registry too
MarkCompleted(storage, task_id, results, t) ==
    [storage EXCEPT ![task_id] =
        [@ EXCEPT !.status = "completed", !.end_time = IsoFormat(t), !.results = results]]

\* lines 1112-1121: the manual screenshots appended to the results
ManualFile(task_id, step_name, t) ==
    <<"operation_logs/screenshots/">> \o task_id \o <<"_", step_name, "_">> \o StrfTime(t)
ManualUrl(task_id, step_name, t) ==
    <<"/screenshots/">> \o task_id \o <<"_", step_name, "_">> \o StrfTime(t)

AddManual(results, captured, task_id, step_name, t) ==
    IF captured
    THEN [results EXCEPT !.screenshots = Append(@, ManualFile(task_id, step_name, t)),
                         !.screenshot_urls = Append(@, ManualUrl(task_id, step_name, t))]
    ELSE results

\* TeeOutput (lines 147-163): the tees a text written to the stream out passes
\* through, each writing it to its original, its capture and its file
RECURSIVE TeeChain(_, _)
TeeChain(pipes, out) ==
    IF out = CONSOLE THEN {} ELSE {out} \cup TeeChain(pipes, pipes[out].original_stdout)

\* print(...) by pipeline k while sys.stdout is out
Printed(pipes, k, out) ==
    [j \in DOMAIN pipes |->
        IF j \in TeeChain(pipes, out)
        THEN [pipes[j] EXCEPT !.stdout_capture = @ \cup {k}]
        ELSE pipes[j]]

\* lines 1151-1202: the handler of an exception e raised in the try block, on
\* the registry as the try block left it, then the finally block.  With an
\* agent the handler first appends the session summary to the thoughts log
\* and prints it (log_session_summary, line 1175); an exception of that call
\* leaves execute_task before the registry is written.
HandleFailure(k, storage, call, err) ==
    \E summary_ok \in (IF pipelines[k].browser_agent THEN BOOLEAN ELSE {TRUE}) :
        /\ task_storage' =
               IF summary_ok
               THEN MarkFailed(storage, pipelines[k].task_id, pipelines[k].task_details,
                               err, now, pipelines[k].log_stamp,
                               pipelines[k].browser_agent)
               ELSE storage
        /\ pipelines' = [(IF summary_ok /\ pipelines[k].browser_agent
                          THEN Printed(pipelines, k, sys_stdout) ELSE pipelines) EXCEPT
               ![k].pc = IF summary_ok THEN "returned" ELSE "crashed",
               ![k].raised = call]
        /\ sys_stdout' = pipelines[k].original_stdout

InitService ==
    /\ GEMINI_API_KEY \in BOOLEAN
    /\ task_storage = <<>>
    /\ pipelines = <<>>
    /\ response = NoResponse
    /\ narrative = NoNarrative
    /\ sys_stdout = CONSOLE
    /\ now = 0
    /\ AnaIdle
    /\ NormIdle
    /\ ThIdle
    /\ WIdle

\* datetime.now() advances
Tick ==
    /\ now < MaxTime
    /\ now' = now + 1
    /\ UNCHANGED svcVars
    /\ UNCHANGED notSvc

\* POST /execute-test (lines 1567-1600)
ExecuteTest ==
    /\ response.seq < MaxRequests
    /\ Len(pipelines) < MaxTasks
    /\ \E instructions \in InstructionsSet :
          IF ~GEMINI_API_KEY
          THEN /\ response' = Http(response.seq + 1, "execute-test", UNKNOWN_ID, 500,
                                   <<"GEMINI_API_KEY not configured">>)
               /\ UNCHANGED <<task_storage, pipelines>>
          ELSE /\ task_storage' = Put(task_storage, TaskId(now),
                                      NewTask(TaskId(now), instructions, now))
               /\ pipelines' = Append(pipelines, NewPipeline(TaskId(now), instructions))
               /\ response' = Http(response.seq + 1, "execute-test", TaskId(now), 200,
                                   [task_id |-> TaskId(now), status |-> "pending"])
    /\ UNCHANGED <<GEMINI_API_KEY, narrative, sys_stdout, now>>
    /\ UNCHANGED notSvc

\* lines 1084-1090 with create_browser_agent (lines 171-293, no await in it):
\* the agent and its thoughts log are created, which prints through the tee
\* just installed, or the creation raises and the handler and the finally
\* block run, with no agent among the locals
CreateAgent(k, storage, created) ==
    IF created
    THEN /\ task_storage' = [storage EXCEPT
                ![pipelines[k].task_id].progress = <<"Executing automation task...">>]
         /\ pipelines' = [Printed([pipelines EXCEPT ![k].original_stdout = sys_stdout],
                                  k, k) EXCEPT
                ![k].pc = "agent_created", ![k].browser_agent = TRUE,
                ![k].log_stamp = StrfTime(now)]
         /\ sys_stdout' = k
    ELSE /\ task_storage' = MarkFailed(storage, pipelines[k].task_id,
                                       pipelines[k].task_details,
                                       <<"Error creating browser agent">>, now,
                                       StrfTime(now), FALSE)
         /\ pipelines' = [pipelines EXCEPT ![k].pc = "returned", ![k].raised = "create",
                                           ![k].original_stdout = sys_stdout,
                                           ![k].log_stamp = StrfTime(now)]
         /\ UNCHANGED sys_stdout

\* execute_task from its start to its first suspension (lines 1018-1095): the
\* status, the detailed log opened (outside the try block: an exception of
\* logging.FileHandler leaves execute_task), the tee installed over sys.stdout,
\* the agent created
StartTask(k) ==
    /\ pipelines[k].pc = "scheduled"
    /\ \E logging_ok \in BOOLEAN, created \in BOOLEAN :
          IF logging_ok
          THEN CreateAgent(k, [task_storage EXCEPT
                                  ![pipelines[k].task_id].status = "running"], created)
          ELSE /\ task_storage' = [task_storage EXCEPT ![pipelines[k].task_id] =
                      [@ EXCEPT !.status = "running",
                                !.progress = <<"Setting up logging...">>]]
               /\ pipelines' = [pipelines EXCEPT ![k].pc = "crashed",
                                                 ![k].raised = "logging"]
               /\ UNCHANGED sys_stdout
    /\ UNCHANGED <<GEMINI_API_KEY, response, narrative, now>>
    /\ UNCHANGED notSvc

\* the initial screenshot, which prints its outcome, then browser_agent.run
\* returns a history or raises (lines 1094-1098)
RunAgent(k) ==
    /\ pipelines[k].pc = "agent_created"
    /\ \E initial \in BOOLEAN, ran \in BOOLEAN, history \in Histories :
          IF ran
          THEN /\ pipelines' = [Printed(pipelines, k, sys_stdout) EXCEPT
                                    ![k].pc = "ran",
                                    ![k].initial_screenshot = initial,
                                    ![k].history = history]
               /\ UNCHANGED <<task_storage, sys_stdout>>
          ELSE HandleFailure(k, task_storage, "run", <<"agent run failed">>)
    /\ UNCHANGED <<GEMINI_API_KEY, response, narrative, now>>
    /\ UNCHANGED notSvc

\* lines 1111-1122: what save_execution_results returned, with the manual
\* screenshots appended to it, and the log it wrote
Saved(pipeline, saved, final, t) ==
    [pipeline EXCEPT
        !.pc = "closing",
        !.results = AddManual(AddManual(saved.results, pipeline.initial_screenshot,
                                        pipeline.task_id, "initial", t),
                              final, pipeline.task_id, "final", t),
        !.log = saved.persisted]

\* the final screenshot, save_execution_results, the manual screenshots added
\* to what it returned (lines 1100-1123); both print
SaveResults(k) ==
    /\ pipelines[k].pc = "ran"
    /\ \E final \in BOOLEAN, log_ok \in BOOLEAN, agent_thoughts \in LoadedThoughts :
          pipelines' = [Printed(pipelines, k, sys_stdout) EXCEPT
              ![k] = Saved(@, SaveExecutionResults(pipelines[k].history,
                                                   pipelines[k].task_details,
                                                   pipelines[k].task_id, now,
                                                   agent_thoughts, {}, log_ok),
                           final, now)]
    /\ task_storage' = [task_storage EXCEPT
           ![pipelines[k].task_id].progress = <<"Saving results and screenshots...">>]
    /\ UNCHANGED <<GEMINI_API_KEY, response, narrative, sys_stdout, now>>
    /\ UNCHANGED notSvc

\* the registry once lines 1132-1143 ran
Completed(k) ==
    MarkCompleted(task_storage, pipelines[k].task_id,
                  WithLogFiles(pipelines[k].results, pipelines[k].task_id,
                               pipelines[k].log_stamp, TRUE),
                  now)

\* browser.close returns or raises; then the task is marked completed and the
\* session summary appended to the thoughts log and printed (lines 1127-1149)
CloseBrowser(k) ==
    /\ pipelines[k].pc = "closing"
    /\ \E closed \in BOOLEAN, summary_ok \in BOOLEAN :
          IF ~closed
          THEN HandleFailure(k, task_storage, "close", <<"browser close failed">>)
          ELSE IF ~summary_ok
          THEN HandleFailure(k, Completed(k), "summary", <<"session summary failed">>)
          ELSE /\ task_storage' = Completed(k)
               /\ pipelines' = [Printed(pipelines, k, sys_stdout) EXCEPT
                                    ![k].pc = "returned"]
               /\ sys_stdout' = pipelines[k].original_stdout
    /\ UNCHANGED <<GEMINI_API_KEY, response, narrative, now>>
    /\ UNCHANGED notSvc

\* the task ids a query is made with
QueryIds == DOMAIN task_storage \cup {UNKNOWN_ID}

NotFound(endpoint, task_id) ==
    Http(response.seq + 1, endpoint, task_id, 404, <<"Task not found">>)

\* GET /task-status/{task_id} (lines 1602-1616)
GetTaskStatus(task_id) ==
    /\ response.seq < MaxRequests
    /\ response' =
           IF task_id \notin DOMAIN task_storage THEN NotFound("task-status", task_id)
           ELSE Http(response.seq + 1, "task-status", task_id, 200,
                     [task_id |-> task_id, status |-> task_storage[task_id].status,
                      progress |-> task_storage[task_id].progress,
                      start_time |-> task_storage[task_id].start_time,
                      end_time |-> task_storage[task_id].end_time,
                      error |-> task_storage[task_id].error])
    /\ UNCHANGED <<GEMINI_API_KEY, task_storage, pipelines, narrative, sys_stdout, now>>
    /\ UNCHANGED notSvc

\* GET /task-results/{task_id} (lines 1618-1629)
GetTaskResults(task_id) ==
    /\ response.seq < MaxRequests
    /\ response' =
           IF task_id \notin DOMAIN task_storage THEN NotFound("task-results", task_id)
           ELSE IF task_storage[task_id].status \notin {"completed", "failed"}
           THEN Http(response.seq + 1, "task-results", task_id, 400,
                     <<"Task is still", task_storage[task_id].status>>)
           ELSE Http(response.seq + 1, "task-results", task_id, 200,
                     task_storage[task_id].results)
    /\ UNCHANGED <<GEMINI_API_KEY, task_storage, pipelines, narrative, sys_stdout, now>>
    /\ UNCHANGED notSvc

\* the log files of a task on disk: the pipelines that wrote them.  The
\* detailed log is created when logging is set up, the stdout log by the first
\* write of the tee, the thoughts log with the agent
DetailedLogs(task_id) ==
    {k \in 1..Len(pipelines) :
        pipelines[k].task_id = task_id /\ pipelines[k].log_stamp # None}
StdoutLogs(task_id) ==
    {k \in 1..Len(pipelines) :
        pipelines[k].task_id = task_id /\ pipelines[k].stdout_capture # {}}
ThoughtsLogs(task_id) ==
    {k \in 1..Len(pipelines) :
        pipelines[k].task_id = task_id /\ pipelines[k].browser_agent}

\* lines 2009-2027, 2035-2053, 2064-2082: the first file the glob finds is read
\* and returned, or a sentence saying that there is none
LogAnswer(endpoint, task_id, found, none_found) ==
    Http(response.seq + 1, endpoint, task_id, 200,
         IF found # {} THEN <<"content of the", endpoint, "of">> \o task_id
         ELSE none_found)

\* GET /logs/{task_id}/stdout (lines 2006-2030): the registry is not consulted
GetStdoutLog(task_id) ==
    /\ response.seq < MaxRequests
    /\ response' = LogAnswer("stdout-log", task_id, StdoutLogs(task_id),
                             <<"No stdout log file found for this task.">>)
    /\ UNCHANGED <<GEMINI_API_KEY, task_storage, pipelines, narrative, sys_stdout, now>>
    /\ UNCHANGED notSvc

\* GET /logs/{task_id}/detailed (lines 2032-2056): the registry is not consulted
GetDetailedLog(task_id) ==
    /\ response.seq < MaxRequests
    /\ response' = LogAnswer("detailed-log", task_id, DetailedLogs(task_id),
                             <<"No detailed log file found for this task.">>)
    /\ UNCHANGED <<GEMINI_API_KEY, task_storage, pipelines, narrative, sys_stdout, now>>
    /\ UNCHANGED notSvc

\* GET /agent-thoughts/{task_id} (lines 2058-2085)
GetAgentThoughts(task_id) ==
    /\ response.seq < MaxRequests
    /\ response' =
           IF task_id \notin DOMAIN task_storage THEN NotFound("agent-thoughts", task_id)
           ELSE LogAnswer("agent-thoughts", task_id, ThoughtsLogs(task_id),
                          <<"No agent thoughts file found for this task.">>)
    /\ UNCHANGED <<GEMINI_API_KEY, task_storage, pipelines, narrative, sys_stdout, now>>
    /\ UNCHANGED notSvc

\* lines 1945-1946 and 1986-1987: the analysis stored and returned; the
\* narrative service was called unless the analyzer raised before
StoreAnalysis(task_id, portia, analysis_result) ==
    /\ narrative' = [called |-> analysis_result.analysis_method # "emergency_fallback",
                     raised |-> portia.raised, plan_run |-> portia.plan_run]
    /\ task_storage' = [task_storage EXCEPT ![task_id].analysis = analysis_result]
    /\ response' = Http(response.seq + 1, "analyze-results", task_id, 200, analysis_result)

\* POST /analyze-results/{task_id} (lines 1634-1989)
AnalyzeResultsEndpoint(task_id) ==
    /\ response.seq < MaxRequests
    /\ IF task_id \notin DOMAIN task_storage
       THEN /\ response' = NotFound("analyze-results", task_id)
            /\ UNCHANGED <<task_storage, narrative>>
       ELSE IF task_storage[task_id].status # "completed"
       THEN /\ response' = Http(response.seq + 1, "analyze-results", task_id, 400,
                                <<"Task must be completed before analysis">>)
            /\ UNCHANGED <<task_storage, narrative>>
       ELSE IF ~GEMINI_API_KEY
       THEN /\ response' = Http(response.seq + 1, "analyze-results", task_id, 500,
                                <<"GEMINI_API_KEY not configured">>)
            /\ UNCHANGED <<task_storage, narrative>>
       ELSE \E portia \in PortiaOutcomes, write_ok \in BOOLEAN :
               StoreAnalysis(task_id, portia,
                             Analysis(task_id, task_storage[task_id].results,
                                      task_storage[task_id].instructions, portia,
                                      now, write_ok))
    /\ UNCHANGED <<GEMINI_API_KEY, pipelines, sys_stdout, now>>
    /\ UNCHANGED notSvc

\* one step of the background pipeline k, from a suspension to the next
PipelineStep(k) ==
    /\ k \in 1..Len(pipelines)
    /\ \/ StartTask(k)
       \/ RunAgent(k)
       \/ SaveResults(k)
       \/ CloseBrowser(k)

Next ==
    \/ Tick
    \/ ExecuteTest
    \/ \E k \in 1..Len(pipelines) : StartTask(k)
    \/ \E k \in 1..Len(pipelines) : RunAgent(k)
    \/ \E k \in 1..Len(pipelines) : SaveResults(k)
    \/ \E k \in 1..Len(pipelines) : CloseBrowser(k)
    \/ \E task_id \in QueryIds : GetTaskStatus(task_id)
    \/ \E task_id \in QueryIds : GetTaskResults(task_id)
    \/ \E task_id \in QueryIds : AnalyzeResultsEndpoint(task_id)
    \/ \E task_id \in QueryIds : GetStdoutLog(task_id)
    \/ \E task_id \in QueryIds : GetDetailedLog(task_id)
    \/ \E task_id \in QueryIds : GetAgentThoughts(task_id)

(***************************************************************************)
(* The queries on a registry that holds one task.                          *)
(***************************************************************************)
\* the results with which execute_task completes a task: what the normalizer
\* returned plus the manual screenshots
CompletedResults(task_id, instructions, history, log_ok, initial, final) ==
    WithLogFiles(
        AddManual(
            AddManual(SaveExecutionResults(history, instructions, task_id, 0, <<>>, {},
                                           log_ok).results,
                      initial, task_id, "initial", 0),
            final, task_id, "final", 0),
        task_id, StrfTime(0), TRUE)

\* the registry after one start request at tick 0, in the states its pipeline
\* leaves it in: not yet run, completed, failed
OneTaskRegistries ==
    {(TaskId(0) :> NewTask(TaskId(0), instructions, 0)) : instructions \in InstructionsSet}
    \cup {MarkCompleted((TaskId(0) :> NewTask(TaskId(0), instructions, 0)), TaskId(0),
                        CompletedResults(TaskId(0), instructions, history, log_ok,
                                         initial, final), 0) :
             instructions \in InstructionsSet, history \in Histories,
             log_ok \in BOOLEAN, initial \in BOOLEAN, final \in BOOLEAN}
    \cup {MarkFailed((TaskId(0) :> NewTask(TaskId(0), instructions, 0)), TaskId(0),
                     instructions, <<"agent run failed">>, 0, StrfTime(0), TRUE) :
             instructions \in InstructionsSet}

\* the pipeline of the one task, at its start or at its end
PipelineOf(registry) ==
    [NewPipeline(TaskId(0), registry[TaskId(0)].instructions) EXCEPT
        !.pc = IF registry[TaskId(0)].status = "pending" THEN "scheduled" ELSE "returned",
        !.browser_agent = registry[TaskId(0)].status # "pending",
        !.log_stamp = IF registry[TaskId(0)].status = "pending" THEN None ELSE StrfTime(0)]

InitEndpoint ==
    /\ GEMINI_API_KEY = TRUE
    /\ task_storage \in OneTaskRegistries
    /\ pipelines = <<PipelineOf(task_storage)>>
    /\ response = NoResponse
    /\ narrative = NoNarrative
    /\ sys_stdout = CONSOLE
    /\ now = 0
    /\ AnaIdle
    /\ NormIdle
    /\ ThIdle
    /\ WIdle

NextEndpoint ==
    \/ Tick
    \/ \E task_id \in QueryIds : GetTaskStatus(task_id)
    \/ \E task_id \in QueryIds : GetTaskResults(task_id)
    \/ \E task_id \in QueryIds : AnalyzeResultsEndpoint(task_id)

(***************************************************************************)
(* Claims about the analysis request, checked under SpecEndpoint.          *)
(***************************************************************************)
\* the last answer is a successful analysis for which the narrative service was
\* called
NarratedAnswer ==
    /\ response.endpoint = "analyze-results"
    /\ response.code = 200
    /\ narrative.called

\* the counts of the task's results, as the templated narrative words them
CountsOf(execution_results) ==
    <<"with", ToString(Len(execution_results.execution_steps)), "execution steps and",
      ToString(Len(execution_results.screenshots)), "screenshots captured">>

\* C8: when the narrative call raises or yields nothing usable, the answer's
\* analysis_content is the non-empty templated narrative with the task's step
\* and screenshot counts, and its analysis_method is the fallback tag, not
\* "portia".
C8_FallbackIsTagged ==
    (NarratedAnswer /\ PortiaFailed(narrative)) =>
        /\ response.body.analysis_content # <<>>
        /\ Contains(response.body.analysis_content,
                    CountsOf(task_storage[response.task_id].results))
        /\ response.body.analysis_method = "fallback"
        /\ response.body.analysis_method # "portia"

\* C9: an analysis request for a completed task is answered with success and a
\* non-empty analysis_content, which is stored as the task's analysis, whatever
\* the narrative call does.
C9_AnalysisNeverFails ==
    [][\A task_id \in DOMAIN task_storage :
          (/\ response'.seq = response.seq + 1
           /\ response'.endpoint = "analyze-results"
           /\ response'.task_id = task_id
           /\ task_storage[task_id].status = "completed")
          => (/\ response'.code = 200
              /\ response'.body.analysis_content # <<>>
              /\ task_storage'[task_id].analysis = response'.body)]_vars

\* C9 witness: the narrative call raised, or returned nothing usable, and the
\* request was answered with the stored analysis
C9_Witness ==
    /\ NarratedAnswer
    /\ PortiaFailed(narrative)
    /\ task_storage[response.task_id].status = "completed"
    /\ task_storage[response.task_id].analysis = response.body
    /\ response.body.analysis_content # <<>>

\* the contents the narrative service can answer with
Contents == {PROSE, SHORT, BRIEF, OBJECT_REPR, RUN_REPR, LDV_REPR, NoContent}

\* the content resembles an unserialized object: shorter than 5 characters, an
\* object-representation prefix, or a memory address
Unserialized(c) ==
    c.chars < 5 \/ IsRunRepr(c) \/ IsAngleRepr(c) \/ HasObjectAt(c)

\* C26: whichever extraction method supplies the narrative, content that is
\* shorter than 5 characters, starts with an object-representation prefix or
\* contains "object at 0x" is never returned as analysis_content: it is
\* discarded and the templated narrative is returned instead
C26_NoObjectReprAsNarrative ==
    (NarratedAnswer /\ ~narrative.raised) =>
        /\ \A c \in Contents :
               Unserialized(c) => response.body.analysis_content # c.text
        /\ Unserialized(ExtractAnalysis(narrative.plan_run).ai_analysis) =>
               StartsWith(response.body.analysis_content, <<"**AI Analysis Report**">>)

(***************************************************************************)
(* Claims about the pipeline, checked under Spec.                          *)
(***************************************************************************)
\* execute_task has ended: it returned, or an exception left it
Ended(k) == pipelines[k].pc \in {"returned", "crashed"}

\* C10: when the browser agent cannot be created or its run raises,
\* execute_task ends with the task failed: status failed, end_time set, the
\* error on the task record, results with success false, an error string and
\* no execution steps.
C10_AgentFailureMarksFailed ==
    \A k \in 1..Len(pipelines) :
        (Ended(k) /\ pipelines[k].raised \in {"create", "run"}) =>
            /\ task_storage[pipelines[k].task_id].status = "failed"
            /\ task_storage[pipelines[k].task_id].end_time # None
            /\ task_storage[pipelines[k].task_id].error # None
            /\ task_storage[pipelines[k].task_id].results # Absent
            /\ task_storage[pipelines[k].task_id].results.success = PyFalse
            /\ task_storage[pipelines[k].task_id].results.error # None
            /\ task_storage[pipelines[k].task_id].results.execution_steps = <<>>

\* the status of the task of pipeline k
StatusOf(k) == task_storage[pipelines[k].task_id].status

\* pipeline k exists: a start request registered its task
Registered(k) == k <= Len(pipelines)

\* the task of pipeline k is completed or failed
Terminal(k) == Registered(k) /\ StatusOf(k) \in {"completed", "failed"}

\* C11: every task registered by a start request eventually reaches status
\* completed or failed, when its pipeline is scheduled and every external call
\* returns or raises; no execution leaves it pending or running forever.
C11_EveryTaskTerminates ==
    \A k \in 1..MaxTasks : [](Registered(k) => <>Terminal(k))

\* C12: overlapping pipelines share no mutable state but the registry: the
\* stdout capture and stdout log file of a task hold no text written by
\* another task.
C12_NoSharedStdout ==
    \A k \in 1..Len(pipelines) : pipelines[k].stdout_capture \subseteq {k}

\* the step is an accepted start request
Started ==
    /\ response'.seq = response.seq + 1
    /\ response'.endpoint = "execute-test"
    /\ response'.code = 200

\* C13: a start request creates one registry record with status pending under
\* the task id it generated, before any step of the pipeline has run, and
\* returns that id with status pending without waiting for the pipeline; a
\* status becomes running only by the start of a background pipeline of that
\* task.
C13_StartRequestIsPending ==
    [][/\ Started =>
            /\ response'.body = [task_id |-> response'.task_id, status |-> "pending"]
            /\ DOMAIN task_storage' = DOMAIN task_storage \cup {response'.task_id}
            /\ task_storage'[response'.task_id].status = "pending"
            /\ \A id \in DOMAIN task_storage \ {response'.task_id} :
                   task_storage'[id] = task_storage[id]
            /\ Len(pipelines') = Len(pipelines) + 1
            /\ pipelines'[Len(pipelines')].task_id = response'.task_id
            /\ pipelines'[Len(pipelines')].pc = "scheduled"
            /\ \A k \in 1..Len(pipelines) : pipelines'[k] = pipelines[k]
       /\ \A id \in DOMAIN task_storage :
            (task_storage[id].status # "running" /\ task_storage'[id].status = "running")
            => \E k \in 1..Len(pipelines) :
                   /\ pipelines[k].task_id = id
                   /\ pipelines[k].pc = "scheduled"
                   /\ pipelines'[k].pc # "scheduled"]_vars

\* C13 witness: a start request was just answered with a pending task whose
\* pipeline has not run a step, while the pipeline of an earlier task is
\* awaiting its agent
C13_Witness ==
    /\ response.endpoint = "execute-test"
    /\ response.code = 200
    /\ Len(pipelines) = 2
    /\ pipelines[1].pc = "agent_created"
    /\ pipelines[2].pc = "scheduled"
    /\ pipelines[2].task_id = response.task_id
    /\ pipelines[1].task_id # response.task_id
    /\ task_storage[response.task_id].status = "pending"
    /\ StatusOf(1) = "running"

\* C14: every start request stores its record under a task id that differs
\* from the id of every record already in the registry, so it never overwrites
\* the record of an earlier task, however close in time the requests are.
C14_FreshTaskId ==
    [][Started => response'.task_id \notin DOMAIN task_storage]_vars

\* the queries keyed by a task id
TaskQueries ==
    {"task-status", "task-results", "analyze-results", "agent-thoughts",
     "stdout-log", "detailed-log"}

\* C15: every query keyed by a task id that is not in the registry is answered
\* with the not-found error and no content.
C15_UnknownIdNotFound ==
    (response.endpoint \in TaskQueries /\ response.task_id \notin DOMAIN task_storage)
    => (response.code = 404 /\ response.body = <<"Task not found">>)

\* the step answers a results or analysis request for the task
AskedFor(task_id) ==
    /\ response'.seq = response.seq + 1
    /\ response'.endpoint \in {"task-results", "analyze-results"}
    /\ response'.task_id = task_id

\* C16: while a task is pending or running, the results request and the
\* analysis request are rejected as not ready with a message naming the task's
\* current status; once it is completed or failed neither is rejected as not
\* ready.
C16_NotReadyNamesStatus ==
    [][\A task_id \in DOMAIN task_storage :
          AskedFor(task_id) =>
              IF task_storage[task_id].status \in {"pending", "running"}
              THEN /\ response'.code = 400
                   /\ Contains(response'.body, <<task_storage[task_id].status>>)
              ELSE response'.code # 400]_vars

\* C17: once save_execution_results has written the execution log of a task,
\* its results are not modified: what the registry holds for the completed
\* task, and what the results request returns, equals the persisted log, the
\* screenshots and screenshot_urls included.
C17_ResultsAsPersisted ==
    \A k \in 1..Len(pipelines) :
        (pipelines[k].log # <<>> /\ StatusOf(k) = "completed") =>
            /\ task_storage[pipelines[k].task_id].results.screenshots
                   = pipelines[k].log[1].screenshots
            /\ task_storage[pipelines[k].task_id].results.screenshot_urls
                   = pipelines[k].log[1].screenshot_urls
            /\ task_storage[pipelines[k].task_id].results = pipelines[k].log[1]
            /\ (/\ response.endpoint = "task-results"
                /\ response.code = 200
                /\ response.task_id = pipelines[k].task_id)
               => response.body = pipelines[k].log[1]

\* C28: after every started task has ended, sys.stdout (and sys.stderr, which
\* the same lines handle) is again the stream installed before the first task
\* started, for every interleaving of task starts and completions
C28_StdoutRestored ==
    (pipelines # <<>> /\ \A k \in 1..Len(pipelines) : Ended(k)) =>
        sys_stdout = CONSOLE

TerminalStatus == {"completed", "failed"}

\* the status moved along pending -> running -> (completed | failed), or not at
\* all; a handler that runs from pending or running to a terminal status
\* without suspending passes through the statuses in between
Forward(before, after) ==
    \/ after = before
    \/ before = "pending" /\ after \in {"running"} \cup TerminalStatus
    \/ before = "running" /\ after \in TerminalStatus

\* C29: a task's status only moves forward along pending -> running ->
\* (completed | failed): it is always one of these four values, a terminal
\* status is never changed again by any later operation, and end_time is set
\* exactly when the status is terminal
C29_StatusMovesForward ==
    [][\A task_id \in DOMAIN task_storage' :
          /\ task_storage'[task_id].status
                 \in {"pending", "running"} \cup TerminalStatus
          /\ (task_storage'[task_id].end_time # None)
                 <=> (task_storage'[task_id].status \in TerminalStatus)
          /\ task_id \in DOMAIN task_storage =>
                 Forward(task_storage[task_id].status,
                         task_storage'[task_id].status)]_vars

\* C30: a task's status is completed only if its stored results have success =
\* true and error = null: a run whose history is empty, or whose normalization or
\* log-file write recorded an error, does not end in status completed
C30_CompletedMeansSuccess ==
    \A task_id \in DOMAIN task_storage :
        task_storage[task_id].status = "completed" =>
            /\ task_storage[task_id].results # Absent
            /\ task_storage[task_id].results.success = PyTrue
            /\ task_storage[task_id].results.error = None

(***************************************************************************)
(* The specifications.                                                     *)
(***************************************************************************)
\* the compliance analyzer called (twice) on given execution results
SpecAnalyze == InitAnalyze /\ [][NextAnalyze]_vars

\* the normalizer on a raw history, then the analyzer on what it returned
SpecNorm == InitNorm /\ [][NextNorm]_vars

\* the queries on a registry that holds one task
SpecEndpoint == InitEndpoint /\ [][NextEndpoint]_vars

\* the service: start requests, their pipelines and the queries
Spec == InitService /\ [][Next]_vars

\* the thoughts log written by the agent's log actions, then loaded
SpecThoughts == InitThoughts /\ [][NextThoughts]_vars

\* the thought enrichment over the steps of one history
SpecEnhance == InitEnhance /\ [][NextEnhance]_vars

\* the service when every scheduled pipeline keeps being run
SpecLive == Spec /\ \A k \in 1..MaxTasks : WF_vars(PipelineStep(k))

=============================================================================
